---- MODULE Spec2Model ----
(***************************************************************************)
(* The UTXO multisig script classification and signature verification      *)
(* engine of utxo-lib (parseSignatureScript, getSignatureVerifications,    *)
(* verifySignature, verifySignatureWithPublicKeys) together with the test  *)
(* harness of test/bitgo/signature.ts that drives it through the           *)
(* co-signing sequence unsigned -> half-signed -> fully-signed and the     *)
(* high-S mutation.                                                        *)
(*                                                                         *)
(* Stack items (entries of a scriptSig or of a witness) are records:       *)
(*   [t |-> "op0"]                       OP_0 / zero-length push           *)
(*   [t |-> "sig", key, digest, s]       a signature by key over digest    *)
(*   [t |-> "buf", script |-> <<ops>>]   a pushed script                   *)
(*   [t |-> "controlBlock", leaf]        a taproot control block           *)
(*   [t |-> "op", op]                    an opcode that pushes nothing     *)
(* A script is a sequence of opcodes and pushed public keys (strings).     *)
(*                                                                         *)
(* Spec drives the engine as the test does.  ParserSpec hands the parser   *)
(* inputs of any shape, PrevOutputSpec calls the verifier with previous    *)
(* outputs missing, TemplateSpec applies compile and decompile.            *)
(***************************************************************************)
EXTENDS Integers, Sequences, FiniteSets, TLC

VARIABLES
  scriptType,    \* the script type of the test case, "none" before a transaction is built
  signKeys,      \* the keys that have signed tx, in signing order
  cosigners,     \* <<k1, k2>>: the signer pair of the test case
  stage,         \* "init", "unsigned", "halfSigned" or "fullSigned"
  tx,            \* the transaction under test: a sequence of inputs
  prevOutputs,   \* the outputs spent by the inputs of tx
  txsWithHighS,  \* the result of the last getTransactionWithHighS(tx, inputIndex), or the
                 \* copies of tx with one malformed signature
  call           \* the last call of the engine and its result

vars == <<scriptType, signKeys, cosigners, stage, tx, prevOutputs, txsWithHighS, call>>

(***************************************************************************)
(* Bounds and constants                                                    *)
(***************************************************************************)
\* the largest number of inputs of a test transaction
MaxInputs == 2

\* the largest number of stack items in front of the script of an input handed to
\* the parser as is: the OP_0 of OP_CHECKMULTISIG and one slot per key
MaxSlots == 4

\* value of every previous output of the test transactions
defaultTestOutputAmount == 1

\* the wallet keys, in the order of the public keys of the output script
fixtureKeys == <<"user", "backup", "bitgo">>

\* m of the m-of-n multisig scripts
Threshold == 2

scriptTypes2Of3 == <<"p2sh", "p2shP2wsh", "p2wsh", "p2tr">>

(***************************************************************************)
(* Sequence helpers (JavaScript array semantics, 0-based where noted)      *)
(***************************************************************************)
Range(s) == {s[j] : j \in DOMAIN s}

\* Array.prototype.includes
includes(s, x) == \E j \in DOMAIN s : s[j] = x

\* Array.prototype.indexOf: 0-based, -1 when absent
indexOf(s, x) ==
  IF includes(s, x) THEN (CHOOSE j \in DOMAIN s : s[j] = x /\ \A h \in 1..(j - 1) : s[h] # x) - 1
  ELSE -1

\* the last element of a non-empty sequence
Last(s) == s[Len(s)]

(***************************************************************************)
(* Script Template Library (spec 4.2)                                      *)
(***************************************************************************)
OP_N == <<"OP_1", "OP_2", "OP_3">>

IsKey(op) == op \in Range(fixtureKeys)

\* m <k1> .. <kn> n OP_CHECKMULTISIG
compileMultisig(keys, m) == <<OP_N[m]>> \o keys \o <<OP_N[Len(keys)], "OP_CHECKMULTISIG">>

\* <k1> OP_CHECKSIGVERIFY <k2> OP_CHECKSIG : the n-of-n tapscript of one signer pair
compileTapscript(keys) == <<keys[1], "OP_CHECKSIGVERIFY", keys[2], "OP_CHECKSIG">>

\* <k> OP_CHECKSIG
compilePubkey(k) == <<k, "OP_CHECKSIG">>

\* OP_0 <sha256(witnessScript)> : the redeem script of a p2sh-wrapped p2wsh input
witnessProgram == <<"OP_0", "witnessScriptHash">>

(***************************************************************************)
(* Script Classifier (spec 4.1): total, unrecognized is "nonstandard"      *)
(***************************************************************************)
IsMultisigScript(s) ==
  /\ Len(s) >= 4
  /\ s[Len(s)] = "OP_CHECKMULTISIG"
  /\ s[1] \in Range(OP_N)
  /\ s[Len(s) - 1] \in Range(OP_N)
  /\ \A j \in 2..(Len(s) - 2) : IsKey(s[j])
  /\ OP_N[Len(s) - 3] = s[Len(s) - 1]
  /\ indexOf(OP_N, s[1]) <= indexOf(OP_N, s[Len(s) - 1])

IsTapscriptNofN(s) ==
  /\ Len(s) = 4
  /\ IsKey(s[1]) /\ s[2] = "OP_CHECKSIGVERIFY"
  /\ IsKey(s[3]) /\ s[4] = "OP_CHECKSIG"

classifyOutput(s) ==
  IF IsMultisigScript(s) THEN "multisig"
  ELSE IF Len(s) = 2 /\ IsKey(s[1]) /\ s[2] = "OP_CHECKSIG" THEN "pubkey"
  ELSE IF IsTapscriptNofN(s) THEN "taprootnofn"
  ELSE IF s = witnessProgram THEN "witnessscripthash"
  ELSE "nonstandard"

IsPush(item) == item.t \in {"op0", "sig", "buf"}

\* classify.input: a push-only scriptSig whose last push is a recognized redeem script
classifyInput(script) ==
  IF /\ Len(script) >= 1
     /\ \A j \in DOMAIN script : IsPush(script[j])
     /\ Last(script).t = "buf"
     /\ classifyOutput(Last(script).script) # "nonstandard"
  THEN "scripthash"
  ELSE "nonstandard"

\* classify.witness
classifyWitness(witness) ==
  IF /\ Len(witness) >= 2
     /\ Last(witness).t = "controlBlock"
     /\ witness[Len(witness) - 1].t = "buf"
  THEN "taproot"
  ELSE IF /\ Len(witness) >= 1
          /\ Last(witness).t = "buf"
          /\ classifyOutput(Last(witness).script) = "multisig"
  THEN "witnessscripthash"
  ELSE "nonstandard"

(***************************************************************************)
(* Digest Builder (spec 4.4)                                               *)
(***************************************************************************)
\* legacy sighash: p2sh, p2shP2pk
hashForSignature(inputIndex, scriptCode, hashType) ==
  [kind |-> "legacy", inputIndex |-> inputIndex, scriptCode |-> scriptCode, hashType |-> hashType]

\* BIP143 sighash: p2shP2wsh, p2wsh; commits to the value of the spent output
hashForWitnessV0(inputIndex, scriptCode, amount, hashType) ==
  [kind |-> "witnessV0", inputIndex |-> inputIndex, scriptCode |-> scriptCode,
   amount |-> amount, hashType |-> hashType]

\* BIP341 script-path sighash: p2tr; commits to every previous output and to the leaf
hashForWitnessV1(inputIndex, prevOuts, leafScript, hashType) ==
  [kind |-> "witnessV1", inputIndex |-> inputIndex, prevOutputs |-> prevOuts,
   leafHash |-> leafScript, hashType |-> hashType]

isSegwitType(st) == st \in {"p2shP2wsh", "p2wsh", "p2tr"}

\* inputIndex is 0-based
buildDigest(st, inputIndex, pubScript, amount, prevOuts, hashType) ==
  IF st = "p2tr" THEN hashForWitnessV1(inputIndex, prevOuts, pubScript, hashType)
  ELSE IF isSegwitType(st) THEN hashForWitnessV0(inputIndex, pubScript, amount, hashType)
  ELSE hashForSignature(inputIndex, pubScript, hashType)

(***************************************************************************)
(* Signatures.  s is "lowS" or "highS" for a DER-encoded ECDSA signature,   *)
(* "none" for a 64-byte Schnorr signature and "malformed" for bytes that    *)
(* are present but decode to neither.                                      *)
(***************************************************************************)
OP_0 == [t |-> "op0"]

Buf(script) == [t |-> "buf", script |-> script]

ControlBlock(leaf) == [t |-> "controlBlock", leaf |-> leaf]

sighashOf(st) == IF st = "p2tr" THEN "SIGHASH_DEFAULT" ELSE "SIGHASH_ALL"

\* the signature carries the sighash type its digest was built with
signDigest(st, key, digest) ==
  [t |-> "sig", key |-> key, digest |-> digest, hashType |-> digest.hashType,
   s |-> IF st = "p2tr" THEN "none" ELSE "lowS"]

\* a zero-length buffer or OP_0
isPlaceholderSignature(v) == v.t = "op0"

\* strict ECDSA verification: high-S is rejected
eccVerify(digest, publicKey, sig) ==
  sig.t = "sig" /\ sig.s = "lowS" /\ sig.key = publicKey /\ sig.digest = digest

verifySchnorr(digest, publicKey, sig) ==
  sig.t = "sig" /\ sig.s = "none" /\ sig.key = publicKey /\ sig.digest = digest

(***************************************************************************)
(* Transaction construction (test/transaction_util)                        *)
(***************************************************************************)
\* the keys of the script that the signer pair spends: all wallet keys for the
\* multisig script, the pair (in wallet order) for the tapscript leaf
scriptKeys(st, pair) ==
  IF st = "p2tr" THEN SelectSeq(fixtureKeys, LAMBDA k : includes(pair, k))
  ELSE fixtureKeys

pubScriptOf(st, pair) ==
  IF st = "p2tr" THEN compileTapscript(scriptKeys(st, pair))
  ELSE compileMultisig(fixtureKeys, Threshold)

\* the output script of the spent output
outputScriptOf(st) ==
  CASE st = "p2sh" -> <<"OP_HASH160", "redeemScriptHash", "OP_EQUAL">>
    [] st = "p2shP2pk" -> <<"OP_HASH160", "redeemScriptHash", "OP_EQUAL">>
    [] st = "p2shP2wsh" -> <<"OP_HASH160", "witnessProgramHash", "OP_EQUAL">>
    [] st = "p2wsh" -> witnessProgram
    [] st = "p2tr" -> <<"OP_1", "taprootOutputKey">>

getPrevOutputs(st, amount, n) ==
  [j \in 1..n |-> [script |-> outputScriptOf(st), value |-> amount]]

\* an input whose signature slots are `slots`
createInput(st, slots, pubScript) ==
  CASE st = "p2sh" ->
         [script |-> <<OP_0>> \o slots \o <<Buf(pubScript)>>, witness |-> <<>>]
    [] st = "p2shP2wsh" ->
         [script |-> <<Buf(witnessProgram)>>,
          witness |-> <<OP_0>> \o slots \o <<Buf(pubScript)>>]
    [] st = "p2wsh" ->
         [script |-> <<>>, witness |-> <<OP_0>> \o slots \o <<Buf(pubScript)>>]
    [] st = "p2tr" ->
         [script |-> <<>>, witness |-> slots \o <<Buf(pubScript), ControlBlock(pubScript)>>]

\* the signature of `key` on input inputIndex (0-based)
signInput(st, key, pair, inputIndex, prevOuts) ==
  signDigest(st, key,
    buildDigest(st, inputIndex, pubScriptOf(st, pair), prevOuts[inputIndex + 1].value,
                prevOuts, sighashOf(st)))

\* no signature yet: threshold-many placeholders
unsignedSlots == [j \in 1..Threshold |-> OP_0]

\* one signature: every key of the script has its slot, in script order, and the
\* slots of the keys that have not signed hold a placeholder
halfSignedSlots(st, signer, pair, inputIndex, prevOuts) ==
  LET keys == scriptKeys(st, pair)
  IN [j \in 1..Len(keys) |->
        IF keys[j] = signer THEN signInput(st, signer, pair, inputIndex, prevOuts) ELSE OP_0]

\* both signatures, ordered like the public keys of the script
fullSignedSlots(st, pair, inputIndex, prevOuts) ==
  LET signers == SelectSeq(fixtureKeys, LAMBDA k : includes(pair, k))
  IN [j \in 1..Len(signers) |-> signInput(st, signers[j], pair, inputIndex, prevOuts)]

defaultPair == SubSeq(fixtureKeys, 1, Threshold)

getUnsignedTransaction2Of3(st, n) ==
  [j \in 1..n |-> createInput(st, unsignedSlots, pubScriptOf(st, defaultPair))]

getHalfSignedTransaction2Of3(st, k1, k2, n) ==
  LET prevOuts == getPrevOutputs(st, defaultTestOutputAmount, n)
  IN [j \in 1..n |->
        createInput(st, halfSignedSlots(st, k1, <<k1, k2>>, j - 1, prevOuts),
                    pubScriptOf(st, <<k1, k2>>))]

getFullSignedTransaction2Of3(st, k1, k2, n) ==
  LET prevOuts == getPrevOutputs(st, defaultTestOutputAmount, n)
  IN [j \in 1..n |->
        createInput(st, fullSignedSlots(st, <<k1, k2>>, j - 1, prevOuts),
                    pubScriptOf(st, <<k1, k2>>))]

getFullSignedTransactionP2shP2pk(k, n) ==
  [j \in 1..n |->
     [script |-> <<signDigest("p2shP2pk", k,
                     hashForSignature(j - 1, compilePubkey(k), sighashOf("p2shP2pk"))),
                   Buf(compilePubkey(k))>>,
      witness |-> <<>>]]

(***************************************************************************)
(* Signature Script Parser (spec 4.3)                                      *)
(***************************************************************************)
\* a result that carries the classifications but no script type
Unsupported_MissingScriptType == [inputClassification |-> "nonstandard", isSegwitInput |-> FALSE]

Unsupported == [error |-> "unsupported script"]

IsError(r) == "error" \in DOMAIN r

\* the public keys of a multisig script, in script order
decompileMultisigKeys(s) == SubSeq(s, 2, Len(s) - 2)

\* the public keys of an n-of-n tapscript, in script order
decompileTapscriptKeys(s) == <<s[1], s[3]>>

\* 0 <slot> .. <slot> <pubScript>: the slots of a multisig stack
multisigSlots(stack) == SubSeq(stack, 2, Len(stack) - 1)

parseMultisig(st, inputClassification, isSegwitInput, stack) ==
  IF Len(stack) >= 2 /\ Last(stack).t = "buf" /\ IsMultisigScript(Last(stack).script)
  THEN [scriptType |-> st,
        inputClassification |-> inputClassification,
        isSegwitInput |-> isSegwitInput,
        p2shOutputClassification |-> classifyOutput(Last(stack).script),
        signatures |-> multisigSlots(stack),
        publicKeys |-> decompileMultisigKeys(Last(stack).script),
        pubScript |-> Last(stack).script]
  ELSE Unsupported

parseTaproot(inputClassification, witness) ==
  LET tapscript == witness[Len(witness) - 1].script
  IN IF classifyOutput(tapscript) = "taprootnofn"
     THEN [scriptType |-> "p2tr",
           inputClassification |-> inputClassification,
           isSegwitInput |-> TRUE,
           signatures |-> SubSeq(witness, 1, Len(witness) - 2),
           publicKeys |-> decompileTapscriptKeys(tapscript),
           pubScript |-> tapscript,
           controlBlock |-> Last(witness)]
     ELSE Unsupported

parseSignatureScript(input) ==
  LET inputClass == classifyInput(input.script)
      witnessClass == classifyWitness(input.witness)
      isSegwitInput == Len(input.witness) > 0
  IN IF inputClass = "scripthash" /\ ~isSegwitInput
     THEN IF classifyOutput(Last(input.script).script) = "pubkey"
          THEN [scriptType |-> "p2shP2pk",
                inputClassification |-> "scripthash",
                isSegwitInput |-> FALSE,
                p2shOutputClassification |-> "pubkey"]
          ELSE parseMultisig("p2sh", inputClass, FALSE, input.script)
     ELSE IF inputClass = "scripthash" /\ isSegwitInput
     THEN parseMultisig("p2shP2wsh", inputClass, TRUE, input.witness)
     ELSE IF Len(input.script) = 0 /\ witnessClass = "witnessscripthash"
     THEN parseMultisig("p2wsh", witnessClass, TRUE, input.witness)
     ELSE IF Len(input.script) = 0 /\ witnessClass = "taproot"
     THEN parseTaproot(witnessClass, input.witness)
     ELSE Unsupported

(***************************************************************************)
(* Signature Verifier (spec 4.5).  Input indexes and signature indexes are *)
(* 0-based; a settings record holds publicKey and signatureIndex only when *)
(* the caller sets them.                                                   *)
(***************************************************************************)
NotSigned == "undefined"

\* verificationSettings = {}
NoSettings == [f \in {} |-> 0]

hasPublicKey(settings) == "publicKey" \in DOMAIN settings
hasSignatureIndex(settings) == "signatureIndex" \in DOMAIN settings

\* signatureIndex selects among the signatures of a p2tr input as well
selectSignatures_IndexForTaproot(parsed, settings) ==
  LET real == SelectSeq(parsed.signatures, LAMBDA v : ~isPlaceholderSignature(v))
  IN IF hasSignatureIndex(settings)
     THEN IF settings.signatureIndex < Len(real)
          THEN <<real[settings.signatureIndex + 1]>>
          ELSE <<>>
     ELSE real

\* the signatures a verification looks at: placeholders are dropped first, and
\* signatureIndex then selects among the remaining signatures
\* (signatureIndex is not supported for p2tr, where it is ignored)
selectSignatures(parsed, settings) ==
  LET real == SelectSeq(parsed.signatures, LAMBDA v : ~isPlaceholderSignature(v))
  IN IF hasSignatureIndex(settings) /\ parsed.scriptType # "p2tr"
     THEN IF settings.signatureIndex < Len(real)
          THEN <<real[settings.signatureIndex + 1]>>
          ELSE <<>>
     ELSE real

selectPublicKeys(parsed, settings) ==
  SelectSeq(parsed.publicKeys, LAMBDA k : ~hasPublicKey(settings) \/ settings.publicKey = k)

verifyOne(parsed, sig, publicKey, inputIndex, amount, prevOuts) ==
  LET digest == buildDigest(parsed.scriptType, inputIndex, parsed.pubScript, amount,
                            prevOuts, sig.hashType)
  IN IF parsed.scriptType = "p2tr"
     THEN verifySchnorr(digest, publicKey, sig)
     ELSE eccVerify(digest, publicKey, sig)

\* the value of a previous output that the caller did not supply
NoAmount == -1

MissingPrevOutput == [error |-> "missing prevOutput"]

\* every digest is computed whatever the caller supplied
digestInputsMissing_Never(st, n, amount, prevOuts) == FALSE

\* a previous output that the digest of the input commits to is absent: the
\* BIP341 digest commits to the previous output of every input, the BIP143
\* digest to the value of the previous output of the input itself
digestInputsMissing(st, n, amount, prevOuts) ==
  CASE st = "p2tr" -> DOMAIN prevOuts # 1..n
    [] st \in {"p2shP2wsh", "p2wsh"} -> amount = NoAmount
    [] OTHER -> FALSE

\* the verifications of a parsed input of an n-input transaction: one entry per
\* selected signature, the selected public key it verifies against
verificationsOfParsed(parsed, n, inputIndex, amount, settings, prevOuts) ==
  IF IsError(parsed) \/ parsed.scriptType = "p2shP2pk"
  THEN Unsupported
  ELSE IF digestInputsMissing(parsed.scriptType, n, amount, prevOuts)
  THEN MissingPrevOutput
  ELSE LET signatures == selectSignatures(parsed, settings)
           publicKeys == selectPublicKeys(parsed, settings)
       IN [ok |-> [j \in 1..Len(signatures) |->
               LET signedBy == SelectSeq(publicKeys, LAMBDA k :
                     verifyOne(parsed, signatures[j], k, inputIndex, amount, prevOuts))
               IN [signedBy |-> IF Len(signedBy) = 0 THEN NotSigned ELSE signedBy[1]]]]

getSignatureVerifications(t, inputIndex, amount, settings, prevOuts) ==
  verificationsOfParsed(parseSignatureScript(t[inputIndex + 1]), Len(t), inputIndex,
                        amount, settings, prevOuts)

\* the answer of verifySignature to the verifications of an input
anyVerification(r, settings) ==
  IF IsError(r) THEN r
  ELSE [ok |-> \E j \in DOMAIN r.ok :
                 /\ r.ok[j].signedBy # NotSigned
                 /\ hasPublicKey(settings) => r.ok[j].signedBy = settings.publicKey]

\* decoding the bytes of a signature raises when they are no DER/Schnorr encoding
verifySignature_RaisesOnMalformed(t, inputIndex, amount, settings, prevOuts) ==
  LET r == getSignatureVerifications(t, inputIndex, amount, settings, prevOuts)
      stack == t[inputIndex + 1].script \o t[inputIndex + 1].witness
  IN IF IsError(r) THEN r
     ELSE IF \E j \in DOMAIN stack : stack[j].t = "sig" /\ stack[j].s = "malformed"
     THEN [error |-> "malformed signature"]
     ELSE [ok |-> \E j \in DOMAIN r.ok :
                    /\ r.ok[j].signedBy # NotSigned
                    /\ hasPublicKey(settings) => r.ok[j].signedBy = settings.publicKey]

verifySignature(t, inputIndex, amount, settings, prevOuts) ==
  anyVerification(getSignatureVerifications(t, inputIndex, amount, settings, prevOuts),
                  settings)

\* one boolean per supplied key, in the order of the supplied keys
verifySignatureWithPublicKeys(t, inputIndex, prevOuts, publicKeys) ==
  LET amount == IF inputIndex + 1 \in DOMAIN prevOuts
                THEN prevOuts[inputIndex + 1].value
                ELSE NoAmount
      r == getSignatureVerifications(t, inputIndex, amount, NoSettings, prevOuts)
  IN IF IsError(r) THEN r
     ELSE [ok |-> [j \in 1..Len(publicKeys) |->
                     \E h \in DOMAIN r.ok : r.ok[h].signedBy = publicKeys[j]]]

verifySignatureWithPublicKey(t, inputIndex, prevOuts, publicKey) ==
  LET r == verifySignatureWithPublicKeys(t, inputIndex, prevOuts, <<publicKey>>)
  IN IF IsError(r) THEN r ELSE [ok |-> r.ok[1]]

(***************************************************************************)
(* The high-S mutation (test/bitgo/signatureModify)                        *)
(***************************************************************************)
\* the stack that holds the signatures of an input
signatureStack(input) == IF Len(input.witness) > 0 THEN "witness" ELSE "script"

\* positions of the low-S signatures of an input, in stack order
lowSPositions(input) ==
  LET stack == input[signatureStack(input)]
  IN SelectSeq([j \in 1..Len(stack) |-> j],
            LAMBDA j : stack[j].t = "sig" /\ stack[j].s = "lowS")

\* one copy of the transaction per low-S signature of the input, with that one
\* signature replaced by its high-S form
getTransactionWithHighS(t, inputIndex) ==
  LET input == t[inputIndex + 1]
      pos == lowSPositions(input)
  IN [j \in 1..Len(pos) |->
        [t EXCEPT ![inputIndex + 1][signatureStack(input)][pos[j]].s = "highS"]]

\* positions of the signatures of an input, in stack order
signaturePositions(input) ==
  LET stack == input[signatureStack(input)]
  IN SelectSeq([j \in 1..Len(stack) |-> j], LAMBDA j : stack[j].t = "sig")

\* one copy of the transaction per signature of the input, with the bytes of that
\* one signature replaced by bytes of a wrong length (neither DER nor Schnorr)
getTransactionWithMalformedSignature(t, inputIndex) ==
  LET input == t[inputIndex + 1]
      pos == signaturePositions(input)
  IN [j \in 1..Len(pos) |->
        [t EXCEPT ![inputIndex + 1][signatureStack(input)][pos[j]].s = "malformed"]]

(***************************************************************************)
(* Expected values of checkSignTransaction and runTestParseScript          *)
(***************************************************************************)
\* "return true iff there are any valid signatures at all"
expectAnySignature_AtLeastTwo(sk) == Len(sk) > 1

expectAnySignature(sk) == Len(sk) > 0

\* "if publicKey is given, return true iff it is included in signKeys"
expectPublicKey_FirstSigner(sk, k) == Len(sk) > 0 /\ sk[1] = k

\* the key is not looked at: any signature counts
expectPublicKey_AnySigner(sk, k) == Len(sk) > 0

expectPublicKey(sk, k) == includes(sk, k)

\* "the signatures have the same order as the public keys in the outputScript"
orderedSigningKeys_SigningOrder(sk) == sk

orderedSigningKeys(sk) == SelectSeq(fixtureKeys, LAMBDA k : includes(sk, k))

\* "if no public key is given, return true iff any valid signature with given index exists"
expectSignatureIndex_OffByOne(sk, signatureIndex) == signatureIndex <= Len(sk)

expectSignatureIndex_WalletPosition(sk, signatureIndex) ==
  includes(sk, fixtureKeys[signatureIndex + 1])

expectSignatureIndex(sk, signatureIndex) == signatureIndex < Len(sk)

\* "if publicKey and signatureIndex are provided only return if both match"
expectPublicKeyAndIndex_WalletIndex(sk, k, signatureIndex) ==
  includes(sk, k) /\ signatureIndex = indexOf(fixtureKeys, k)

expectPublicKeyAndIndex(sk, k, signatureIndex) ==
  signatureIndex = indexOf(orderedSigningKeys(sk), k)

\* fixtureKeys.map((k) => signKeys.includes(k)), for the key list handed to the call
expectWithPublicKeys_ScriptOrder(sk, pubkeys) ==
  [j \in 1..Len(pubkeys) |-> includes(sk, fixtureKeys[j])]

\* one entry per key of a signer pair instead of one per supplied key
expectWithPublicKeys_PerScriptKey(sk, pubkeys) ==
  [j \in 1..Threshold |-> includes(sk, pubkeys[j])]

expectWithPublicKeys(sk, pubkeys) == [j \in 1..Len(pubkeys) |-> includes(sk, pubkeys[j])]

signatureCount(res) == Cardinality({j \in DOMAIN res : res[j]})

\* the count expected of a transaction with one high-S signature
expectHighSCount_Unchanged(sk) == Len(sk)

expectHighSCount(sk) == Len(sk) - 1

\* expectedPlaceholderSignatures of the "halfSigned" and of the "fullSigned" test
expectedPlaceholderSignatures_NoTaproot(st, name) ==
  IF name = "fullSigned" THEN 0 ELSE 2

expectedPlaceholderSignatures_FullKeepsOne(st, name) ==
  IF name = "fullSigned" THEN 1 ELSE IF st = "p2tr" THEN 1 ELSE 2

\* every input keeps one slot per wallet key, whatever its script type
expectedPlaceholderSignatures_OnePerKey(st, name) ==
  Len(fixtureKeys) - (IF name = "fullSigned" THEN Threshold ELSE 1)

expectedPlaceholderSignatures(st, name) ==
  IF name = "fullSigned" THEN 0 ELSE IF st = "p2tr" THEN 1 ELSE 2

\* parsed.signatures.filter((s) => isPlaceholderSignature(s)).length
placeholderCount(parsed) ==
  Len(SelectSeq(parsed.signatures, LAMBDA v : isPlaceholderSignature(v)))

\* classify.output of a stack item; an item that is no script is nonstandard
classifyItem(item) == IF item.t = "buf" THEN classifyOutput(item.script) ELSE "nonstandard"

\* the first push of the stack instead of the last
classifyPubScript_FirstPush(input) ==
  IF classifyInput(input.script) = "scripthash"
       \/ classifyWitness(input.witness) = "witnessscripthash"
  THEN IF Len(input.witness) > 0
       THEN classifyItem(input.witness[1])
       ELSE classifyItem(input.script[1])
  ELSE "undefined"

\* classifyPubScript of the structure of an input: the classification of the
\* last item of the witness, or of the scriptSig when there is no witness
classifyPubScript(input) ==
  IF classifyInput(input.script) = "scripthash"
       \/ classifyWitness(input.witness) = "witnessscripthash"
  THEN IF Len(input.witness) > 0
       THEN classifyItem(Last(input.witness))
       ELSE classifyItem(Last(input.script))
  ELSE "undefined"

\* classifyTapscript of the structure of an input
classifyTapscript(input) ==
  IF classifyInput(input.script) = "scripthash"
       \/ classifyWitness(input.witness) = "witnessscripthash"
  THEN "undefined"
  ELSE IF classifyWitness(input.witness) = "taproot"
  THEN classifyItem(input.witness[Len(input.witness) - 1])
  ELSE "undefined"

\* the p2sh output classification of a script that ends in OP_CHECKMULTISIG
expectedParsedP2shP2pk_Multisig ==
  [scriptType |-> "p2shP2pk",
   inputClassification |-> "scripthash",
   isSegwitInput |-> FALSE,
   p2shOutputClassification |-> "multisig"]

\* the value deepStrictEqual compares the parsed p2shP2pk input with
expectedParsedP2shP2pk ==
  [scriptType |-> "p2shP2pk",
   inputClassification |-> "scripthash",
   isSegwitInput |-> FALSE,
   p2shOutputClassification |-> "pubkey"]

(***************************************************************************)
(* The state machine: the test cases build a transaction step by step and  *)
(* call the engine on it.                                                  *)
(***************************************************************************)
NoCall == [fn |-> "none"]

\* verifySignatureWithPublicKey is called only for settings that hold a publicKey
\* and no signatureIndex
NotCalled == "notCalled"

NoHighS == [inputIndex |-> 0, txs |-> <<>>, form |-> "none"]

KeySet == Range(fixtureKeys)

SignKeyCombinations == {<<k1, k2>> : k1 \in KeySet, k2 \in KeySet} \ {<<k, k>> : k \in KeySet}

SignatureIndexes == 0..(Len(fixtureKeys) - 1)

VerificationSettings ==
  {NoSettings}
    \cup {[publicKey |-> k] : k \in KeySet}
    \cup {[signatureIndex |-> n] : n \in SignatureIndexes}
    \cup {[publicKey |-> k, signatureIndex |-> n] : k \in KeySet, n \in SignatureIndexes}

\* every order in which the caller can supply the wallet keys
KeyLists == {<<a, b, c>> : a \in KeySet, b \in KeySet, c \in KeySet}
              \ {l \in {<<a, b, c>> : a \in KeySet, b \in KeySet, c \in KeySet} :
                   Cardinality(Range(l)) < Len(fixtureKeys)}

Init ==
  /\ scriptType = "none"
  /\ signKeys = <<>>
  /\ cosigners = <<>>
  /\ stage = "init"
  /\ tx = <<>>
  /\ prevOutputs = <<>>
  /\ txsWithHighS = NoHighS
  /\ call = NoCall

GetUnsignedTransaction2Of3 ==
  \E st \in Range(scriptTypes2Of3), n \in 1..MaxInputs :
    /\ stage = "init"
    /\ scriptType' = st
    /\ tx' = getUnsignedTransaction2Of3(st, n)
    /\ prevOutputs' = getPrevOutputs(st, defaultTestOutputAmount, n)
    /\ stage' = "unsigned"
    /\ signKeys' = <<>>
    /\ cosigners' = <<>>
    /\ txsWithHighS' = NoHighS
    /\ call' = NoCall

GetHalfSignedTransaction2Of3 ==
  \E pair \in SignKeyCombinations :
    /\ stage = "unsigned"
    /\ tx' = getHalfSignedTransaction2Of3(scriptType, pair[1], pair[2], Len(tx))
    /\ stage' = "halfSigned"
    /\ signKeys' = <<pair[1]>>
    /\ cosigners' = pair
    /\ txsWithHighS' = NoHighS
    /\ call' = NoCall
    /\ UNCHANGED <<scriptType, prevOutputs>>

\* the second signer signs alone: the first signer's signature is not carried over
GetFullSignedTransaction2Of3_SecondSignerOnly ==
  /\ stage = "halfSigned"
  /\ tx' = getHalfSignedTransaction2Of3(scriptType, cosigners[2], cosigners[1], Len(tx))
  /\ stage' = "fullSigned"
  /\ signKeys' = cosigners
  /\ txsWithHighS' = NoHighS
  /\ call' = NoCall
  /\ UNCHANGED <<scriptType, cosigners, prevOutputs>>

GetFullSignedTransaction2Of3 ==
  /\ stage = "halfSigned"
  /\ tx' = getFullSignedTransaction2Of3(scriptType, cosigners[1], cosigners[2], Len(tx))
  /\ stage' = "fullSigned"
  /\ signKeys' = cosigners
  /\ txsWithHighS' = NoHighS
  /\ call' = NoCall
  /\ UNCHANGED <<scriptType, cosigners, prevOutputs>>

GetFullSignedTransactionP2shP2pk ==
  \E k \in KeySet, n \in 1..MaxInputs :
    /\ stage = "init"
    /\ scriptType' = "p2shP2pk"
    /\ tx' = getFullSignedTransactionP2shP2pk(k, n)
    /\ prevOutputs' = getPrevOutputs("p2shP2pk", defaultTestOutputAmount, n)
    /\ stage' = "fullSigned"
    /\ signKeys' = <<k>>
    /\ cosigners' = <<k>>
    /\ txsWithHighS' = NoHighS
    /\ call' = NoCall

\* the transaction a call is made on: tx itself (0) or one of its high-S copies
Target(v) == IF v = 0 THEN tx ELSE txsWithHighS.txs[v]

Targets == 0..Len(txsWithHighS.txs)

\* the transform writes the high-S signature into the transaction it is handed
GetTransactionWithHighS_InPlace ==
  \E i \in 0..(Len(tx) - 1) :
    /\ stage \in {"unsigned", "halfSigned", "fullSigned"}
    /\ scriptType # "p2shP2pk"
    /\ call = NoCall
    /\ txsWithHighS' = [inputIndex |-> i, txs |-> getTransactionWithHighS(tx, i),
                        form |-> "highS"]
    /\ tx' = IF Len(getTransactionWithHighS(tx, i)) > 0
             THEN Last(getTransactionWithHighS(tx, i))
             ELSE tx
    /\ UNCHANGED <<scriptType, signKeys, cosigners, stage, prevOutputs, call>>

GetTransactionWithHighS ==
  \E i \in 0..(Len(tx) - 1) :
    /\ stage \in {"unsigned", "halfSigned", "fullSigned"}
    /\ scriptType # "p2shP2pk"
    /\ call = NoCall
    /\ txsWithHighS' = [inputIndex |-> i, txs |-> getTransactionWithHighS(tx, i),
                        form |-> "highS"]
    /\ UNCHANGED <<scriptType, signKeys, cosigners, stage, tx, prevOutputs, call>>

\* an input arrives with one of its signatures malformed; the copies take the
\* place of the high-S copies as the targets of the next calls
GetTransactionWithMalformedSignature ==
  \E i \in 0..(Len(tx) - 1) :
    /\ stage \in {"halfSigned", "fullSigned"}
    /\ scriptType # "p2shP2pk"
    /\ call = NoCall
    /\ txsWithHighS' = [inputIndex |-> i, txs |-> getTransactionWithMalformedSignature(tx, i),
                        form |-> "malformed"]
    /\ UNCHANGED <<scriptType, signKeys, cosigners, stage, tx, prevOutputs, call>>

ParseSignatureScript ==
  \E v \in Targets, i \in 0..(Len(tx) - 1) :
    /\ stage # "init"
    /\ call = NoCall
    /\ call' = [fn |-> "parseSignatureScript", target |-> v, inputIndex |-> i,
                result |-> parseSignatureScript(Target(v)[i + 1])]
    /\ UNCHANGED <<scriptType, signKeys, cosigners, stage, tx, prevOutputs, txsWithHighS>>

VerifySignature ==
  \E v \in Targets, i \in 0..(Len(tx) - 1), settings \in VerificationSettings :
    /\ stage # "init"
    /\ call = NoCall
    /\ call' = [fn |-> "verifySignature", target |-> v, inputIndex |-> i,
                settings |-> settings,
                result |-> verifySignature(Target(v), i, defaultTestOutputAmount,
                                           settings, prevOutputs),
                withPublicKey |->
                  IF ~hasSignatureIndex(settings) /\ hasPublicKey(settings)
                  THEN verifySignatureWithPublicKey(Target(v), i, prevOutputs,
                                                    settings.publicKey)
                  ELSE NotCalled]
    /\ UNCHANGED <<scriptType, signKeys, cosigners, stage, tx, prevOutputs, txsWithHighS>>

VerifySignatureWithPublicKeys ==
  \E v \in Targets, i \in 0..(Len(tx) - 1), pubkeys \in KeyLists :
    /\ stage # "init"
    /\ call = NoCall
    /\ call' = [fn |-> "verifySignatureWithPublicKeys", target |-> v, inputIndex |-> i,
                pubkeys |-> pubkeys,
                result |-> verifySignatureWithPublicKeys(Target(v), i, prevOutputs, pubkeys)]
    /\ UNCHANGED <<scriptType, signKeys, cosigners, stage, tx, prevOutputs, txsWithHighS>>

\* the caller takes the result of the call
Return ==
  /\ call # NoCall
  /\ call' = NoCall
  /\ UNCHANGED <<scriptType, signKeys, cosigners, stage, tx, prevOutputs, txsWithHighS>>

Next ==
  \/ GetUnsignedTransaction2Of3
  \/ GetHalfSignedTransaction2Of3
  \/ GetFullSignedTransaction2Of3
  \/ GetFullSignedTransactionP2shP2pk
  \/ GetTransactionWithHighS
  \/ GetTransactionWithMalformedSignature
  \/ ParseSignatureScript
  \/ VerifySignature
  \/ VerifySignatureWithPublicKeys
  \/ Return

Spec == Init /\ [][Next]_vars

(***************************************************************************)
(* The template library as a pair of functions: compile builds the script  *)
(* of a template from an ordered key set and a threshold, decompile        *)
(* recovers them from a script that matches a template exactly.            *)
(***************************************************************************)
NoTemplate == [error |-> "no template"]

\* the push of a public key with OP_PUSHDATA1 instead of the one-byte length:
\* the same key, other bytes
nonMinimalPush(k) ==
  CASE k = "user" -> "OP_PUSHDATA1 user"
    [] k = "backup" -> "OP_PUSHDATA1 backup"
    [] k = "bitgo" -> "OP_PUSHDATA1 bitgo"

\* a script with each push of a key in its minimal encoding
minimalPushes(s) ==
  [j \in DOMAIN s |->
     IF \E k \in KeySet : s[j] = nonMinimalPush(k)
     THEN CHOOSE k \in KeySet : s[j] = nonMinimalPush(k)
     ELSE s[j]]

compile(template, keys, threshold) ==
  CASE template = "multisig" -> compileMultisig(keys, threshold)
    [] template = "taprootnofn" -> compileTapscript(keys)
    [] template = "pubkey" -> compilePubkey(keys[1])

\* the template, the keys in script order and the threshold of a script
decompileExact(s) ==
  IF IsMultisigScript(s)
  THEN [template |-> "multisig", keys |-> decompileMultisigKeys(s),
        threshold |-> indexOf(OP_N, s[1]) + 1]
  ELSE IF IsTapscriptNofN(s)
  THEN [template |-> "taprootnofn", keys |-> decompileTapscriptKeys(s), threshold |-> 2]
  ELSE IF classifyOutput(s) = "pubkey"
  THEN [template |-> "pubkey", keys |-> <<s[1]>>, threshold |-> 1]
  ELSE NoTemplate

\* pushes are read whatever their encoding
decompile_AnyPushEncoding(s) == decompileExact(minimalPushes(s))

\* fails unless the bytes match a template exactly
decompile(s) == decompileExact(s)

\* the ordered key sets: sequences of distinct wallet keys
OrderedKeySets ==
  {ks \in UNION {[1..n -> KeySet] : n \in 1..Len(fixtureKeys)} :
     Cardinality(Range(ks)) = Len(ks)}

\* the key sets and thresholds of a template
TemplateArguments ==
  {<<"multisig", ks, m>> : ks \in OrderedKeySets, m \in 1..Len(fixtureKeys)}
    \cup {<<"taprootnofn", ks, Threshold>> : ks \in OrderedKeySets}
    \cup {<<"pubkey", ks, 1>> : ks \in OrderedKeySets}

ValidTemplateArguments ==
  {a \in TemplateArguments :
     CASE a[1] = "multisig" -> a[3] <= Len(a[2])
       [] a[1] = "taprootnofn" -> Len(a[2]) = Threshold
       [] a[1] = "pubkey" -> Len(a[2]) = 1}

ScriptElements ==
  KeySet \cup {nonMinimalPush(k) : k \in KeySet} \cup Range(OP_N)
    \cup {"OP_CHECKMULTISIG", "OP_CHECKSIGVERIFY", "OP_CHECKSIG"}

\* the scripts handed to decompile: every compiled script, and every script that
\* differs from one in a single element
CandidateScripts ==
  LET compiled == {compile(a[1], a[2], a[3]) : a \in ValidTemplateArguments}
  IN compiled
       \cup UNION {{[sc EXCEPT ![j] = e] : j \in DOMAIN sc, e \in ScriptElements} :
                    sc \in compiled}

Compile ==
  \E a \in ValidTemplateArguments :
    /\ call = NoCall
    /\ call' = [fn |-> "compile", template |-> a[1], keys |-> a[2], threshold |-> a[3],
                result |-> compile(a[1], a[2], a[3])]
    /\ UNCHANGED <<scriptType, signKeys, cosigners, stage, tx, prevOutputs, txsWithHighS>>

Decompile ==
  \E sc \in CandidateScripts :
    /\ call = NoCall
    /\ call' = [fn |-> "decompile", script |-> sc, result |-> decompile(sc)]
    /\ UNCHANGED <<scriptType, signKeys, cosigners, stage, tx, prevOutputs, txsWithHighS>>

TemplateNext == Compile \/ Decompile \/ Return

TemplateSpec == Init /\ [][TemplateNext]_vars

(***************************************************************************)
(* The verifier called with previous outputs missing: the caller hands over *)
(* the previous outputs of some of the inputs only.                         *)
(***************************************************************************)
\* the previous outputs of the inputs in present
partialPrevOutputs(present) == [j \in present |-> prevOutputs[j]]

VerifySignatureOnPrevOutputs ==
  \E i \in 0..(Len(tx) - 1), settings \in VerificationSettings,
     present \in SUBSET (1..Len(tx)) :
    /\ stage # "init"
    /\ scriptType # "p2shP2pk"
    /\ call = NoCall
    /\ call' = [fn |-> "verifySignature", target |-> 0, inputIndex |-> i,
                settings |-> settings, prevOutputs |-> partialPrevOutputs(present),
                result |-> verifySignature(tx, i, defaultTestOutputAmount, settings,
                                           partialPrevOutputs(present))]
    /\ UNCHANGED <<scriptType, signKeys, cosigners, stage, tx, prevOutputs, txsWithHighS>>

VerifySignatureWithPublicKeysOnPrevOutputs ==
  \E i \in 0..(Len(tx) - 1), present \in SUBSET (1..Len(tx)) :
    /\ stage # "init"
    /\ scriptType # "p2shP2pk"
    /\ call = NoCall
    /\ call' = [fn |-> "verifySignatureWithPublicKeys", target |-> 0, inputIndex |-> i,
                pubkeys |-> fixtureKeys, prevOutputs |-> partialPrevOutputs(present),
                result |-> verifySignatureWithPublicKeys(tx, i, partialPrevOutputs(present),
                                                         fixtureKeys)]
    /\ UNCHANGED <<scriptType, signKeys, cosigners, stage, tx, prevOutputs, txsWithHighS>>

PrevOutputNext ==
  \/ GetUnsignedTransaction2Of3
  \/ GetHalfSignedTransaction2Of3
  \/ GetFullSignedTransaction2Of3
  \/ VerifySignatureOnPrevOutputs
  \/ VerifySignatureWithPublicKeysOnPrevOutputs
  \/ Return

PrevOutputSpec == Init /\ [][PrevOutputNext]_vars

(***************************************************************************)
(* The parser as a function of the input alone: parseSignatureScript is    *)
(* handed inputs of any shape, supported or not.                           *)
(***************************************************************************)
ScriptTypes == Range(scriptTypes2Of3) \cup {"p2shP2pk"}

\* the bytes of one signature; the parser does not look into them
rawSignature ==
  signDigest("p2sh", fixtureKeys[1],
             hashForSignature(0, compileMultisig(fixtureKeys, Threshold), sighashOf("p2sh")))

\* an opcode that pushes nothing
NonPush == [t |-> "op", op |-> "OP_DUP"]

SlotSequences == UNION {[1..n -> {OP_0, rawSignature}] : n \in 0..MaxSlots}

\* what follows the slots on a stack
StackEndings ==
  {<<>>,
   <<Buf(compileMultisig(fixtureKeys, Threshold))>>,
   <<Buf(compilePubkey(fixtureKeys[1]))>>,
   <<Buf(witnessProgram)>>,
   <<Buf(compileTapscript(defaultPair))>>,
   <<Buf(compileTapscript(defaultPair)), ControlBlock(compileTapscript(defaultPair))>>,
   <<ControlBlock(compileTapscript(defaultPair))>>,
   <<Buf(<<"OP_RETURN">>)>>,
   <<Buf(<<"OP_RETURN">>), ControlBlock(<<"OP_RETURN">>)>>,
   <<NonPush, Buf(compileMultisig(fixtureKeys, Threshold))>>}

RawStacks == {slots \o ending : slots \in SlotSequences, ending \in StackEndings}

\* the signature slots are in the scriptSig or in the witness
RawInputs ==
  {[script |-> a, witness |-> b] : a \in RawStacks, b \in StackEndings}
    \cup {[script |-> a, witness |-> b] : a \in StackEndings, b \in RawStacks}

ParserInit ==
  /\ scriptType = "raw"
  /\ signKeys = <<>>
  /\ cosigners = <<>>
  /\ stage = "raw"
  /\ tx \in {<<input>> : input \in RawInputs}
  /\ prevOutputs = <<>>
  /\ txsWithHighS = NoHighS
  /\ call = NoCall

ParserNext == ParseSignatureScript \/ Return

ParserSpec == ParserInit /\ [][ParserNext]_vars

(***************************************************************************)
(* Claims                                                                  *)
(***************************************************************************)
Is2Of3 == scriptType \in Range(scriptTypes2Of3)

IsMultisigP2shOrP2wsh == scriptType \in {"p2sh", "p2shP2wsh", "p2wsh"}

\* a call of verifySignature on tx itself (not on a high-S copy)
VerifyCallOnTx == call.fn = "verifySignature" /\ call.target = 0

OnlyPublicKey(settings) == hasPublicKey(settings) /\ ~hasSignatureIndex(settings)

OnlySignatureIndex(settings) == ~hasPublicKey(settings) /\ hasSignatureIndex(settings)

BothSettings(settings) == hasPublicKey(settings) /\ hasSignatureIndex(settings)

\* C1: on every input of an unsigned, half-signed or fully-signed 2-of-3
\* transaction of any script type, verifySignature without verification settings
\* returns true iff at least one key has signed (false unsigned, true otherwise).
C1_NoSettingsIffSigned ==
  (Is2Of3 /\ VerifyCallOnTx /\ call.settings = NoSettings)
    => call.result = [ok |-> expectAnySignature(signKeys)]

C1_Witness ==
  /\ Is2Of3 /\ VerifyCallOnTx /\ call.settings = NoSettings
  /\ stage = "halfSigned" /\ scriptType = "p2tr"
  /\ call.result = [ok |-> TRUE]

\* C2: for every script type, signer pair and wallet key k, verifySignature with
\* {publicKey: k} returns true iff k is one of the keys that signed the input.
C2_PublicKeyIffSigner ==
  (Is2Of3 /\ VerifyCallOnTx /\ OnlyPublicKey(call.settings))
    => call.result = [ok |-> expectPublicKey(signKeys, call.settings.publicKey)]

C2_Witness ==
  /\ Is2Of3 /\ VerifyCallOnTx /\ OnlyPublicKey(call.settings)
  /\ stage = "fullSigned"
  /\ call.settings.publicKey = signKeys[2]
  /\ call.result = [ok |-> TRUE]

\* C3: verifySignatureWithPublicKeys returns one boolean per supplied key, in the
\* order of the supplied keys; entry j is true iff keys[j] signed the input, so the
\* number of true entries is the number of signing keys.
C3_WithPublicKeysInKeyOrder ==
  (Is2Of3 /\ call.fn = "verifySignatureWithPublicKeys" /\ call.target = 0)
    => /\ call.result = [ok |-> expectWithPublicKeys(signKeys, call.pubkeys)]
       /\ Len(call.result.ok) = Len(call.pubkeys)
       /\ signatureCount(call.result.ok) = Len(signKeys)

C3_Witness ==
  /\ Is2Of3 /\ call.fn = "verifySignatureWithPublicKeys" /\ call.target = 0
  /\ stage = "fullSigned"
  /\ call.pubkeys = <<"bitgo", "user", "backup">>
  /\ signKeys = <<"bitgo", "backup">>
  /\ call.result = [ok |-> <<TRUE, FALSE, TRUE>>]

\* C4: for p2sh, p2shP2wsh and p2wsh, verifySignature with {signatureIndex: n}
\* returns true iff n is smaller than the number of keys that signed: the index
\* counts the real signatures and skips placeholders.
C4_SignatureIndexCountsSignatures ==
  (IsMultisigP2shOrP2wsh /\ VerifyCallOnTx /\ OnlySignatureIndex(call.settings))
    => call.result = [ok |-> expectSignatureIndex(signKeys, call.settings.signatureIndex)]

C4_Witness ==
  /\ IsMultisigP2shOrP2wsh /\ VerifyCallOnTx /\ OnlySignatureIndex(call.settings)
  /\ stage = "halfSigned" /\ signKeys = <<"bitgo">>
  /\ call.settings.signatureIndex = 0
  /\ call.result = [ok |-> TRUE]

\* the signatures of a parsed input that are no placeholders, in slot order
realSignatures(parsed) == SelectSeq(parsed.signatures, LAMBDA v : ~isPlaceholderSignature(v))

\* the slot at script-order position n holds a signature that verifies against
\* the public key at script-order position n
SlotVerifiesAtScriptPosition(parsed, n, inputIndex) ==
  /\ n < Len(parsed.signatures)
  /\ n < Len(parsed.publicKeys)
  /\ ~isPlaceholderSignature(parsed.signatures[n + 1])
  /\ verifyOne(parsed, parsed.signatures[n + 1], parsed.publicKeys[n + 1], inputIndex,
               defaultTestOutputAmount, prevOutputs)

\* C5 as stated: verifySignature with {signatureIndex: n} returns true iff the
\* slot at script-order position n holds a signature that verifies against the key
\* at script-order position n.
C5_SignatureIndexIsScriptPosition ==
  (Is2Of3 /\ VerifyCallOnTx /\ OnlySignatureIndex(call.settings))
    => call.result =
         [ok |-> SlotVerifiesAtScriptPosition(parseSignatureScript(tx[call.inputIndex + 1]),
                                              call.settings.signatureIndex, call.inputIndex)]

\* C5 amended: for p2sh, p2shP2wsh and p2wsh, verifySignature with
\* {signatureIndex: n} returns true iff the input holds more than n real
\* signatures; the n-th real signature, placeholders skipped, is the one of the
\* n-th signing key in script order, so a half-signed input answers at index 0
\* whatever the script-order position of its signer.
C5_SignatureIndexSkipsPlaceholders ==
  (IsMultisigP2shOrP2wsh /\ VerifyCallOnTx /\ OnlySignatureIndex(call.settings))
    => LET n == call.settings.signatureIndex
           real == realSignatures(parseSignatureScript(tx[call.inputIndex + 1]))
       IN /\ call.result = [ok |-> n < Len(real)]
          /\ Len(real) = Len(orderedSigningKeys(signKeys))
          /\ n < Len(real) => real[n + 1].key = orderedSigningKeys(signKeys)[n + 1]

C5_Witness ==
  /\ IsMultisigP2shOrP2wsh /\ VerifyCallOnTx /\ OnlySignatureIndex(call.settings)
  /\ stage = "halfSigned" /\ signKeys = <<"backup">>
  /\ call.settings.signatureIndex = 0
  /\ call.result = [ok |-> TRUE]
  /\ ~SlotVerifiesAtScriptPosition(parseSignatureScript(tx[call.inputIndex + 1]), 0,
                                   call.inputIndex)

\* C6: for p2sh, p2shP2wsh and p2wsh, verifySignature with {publicKey: k,
\* signatureIndex: n} returns true iff n is the index of k in the list of the keys
\* that signed, ordered like the public keys of the script; false for every n when
\* k did not sign.
C6_PublicKeyAndIndexMatch ==
  (IsMultisigP2shOrP2wsh /\ VerifyCallOnTx /\ BothSettings(call.settings))
    => call.result = [ok |-> expectPublicKeyAndIndex(signKeys, call.settings.publicKey,
                                                     call.settings.signatureIndex)]

C6_Witness ==
  /\ IsMultisigP2shOrP2wsh /\ VerifyCallOnTx /\ BothSettings(call.settings)
  /\ stage = "fullSigned" /\ signKeys = <<"bitgo", "backup">>
  /\ call.settings = [publicKey |-> "bitgo", signatureIndex |-> 1]
  /\ call.result = [ok |-> TRUE]

\* C7: every transaction produced by the high-S mutation of one signature of an
\* input has exactly one verified signature fewer on that input than the original:
\* the mutated signature stops verifying and no other result changes.
C7_HighSDropsExactlyOne ==
  (Is2Of3 /\ call.fn = "verifySignatureWithPublicKeys" /\ call.target > 0
     /\ txsWithHighS.form = "highS")
    => LET orig == verifySignatureWithPublicKeys(tx, call.inputIndex, prevOutputs,
                                                 call.pubkeys).ok
           res == call.result.ok
       IN IF call.inputIndex = txsWithHighS.inputIndex
          THEN /\ signatureCount(res) = expectHighSCount(signKeys)
               /\ signatureCount(res) = signatureCount(orig) - 1
               /\ Cardinality({j \in DOMAIN res : res[j] # orig[j]}) = 1
               /\ \A j \in DOMAIN res : res[j] => orig[j]
          ELSE res = orig

C7_Witness ==
  /\ Is2Of3 /\ call.fn = "verifySignatureWithPublicKeys" /\ call.target = 2
  /\ txsWithHighS.form = "highS"
  /\ call.inputIndex = txsWithHighS.inputIndex
  /\ stage = "fullSigned"
  /\ signatureCount(call.result.ok) = 1

C9_HalfSignedPlaceholders ==
  (Is2Of3 /\ stage = "halfSigned" /\ call.fn = "parseSignatureScript" /\ call.target = 0)
    => /\ ~IsError(call.result)
       /\ call.result.scriptType = scriptType
       /\ placeholderCount(call.result) = expectedPlaceholderSignatures(scriptType, "halfSigned")
       /\ placeholderCount(call.result) = IF scriptType = "p2tr" THEN 1 ELSE 2

C9_Witness ==
  /\ stage = "halfSigned" /\ call.fn = "parseSignatureScript" /\ call.target = 0
  /\ scriptType = "p2tr" /\ signKeys = <<"bitgo">> /\ cosigners = <<"bitgo", "user">>
  /\ placeholderCount(call.result) = 1

\* C10: parseSignatureScript on an input of a fully-signed transaction returns the
\* script type the transaction was built with (p2sh, p2shP2wsh, p2wsh, p2tr or
\* p2shP2pk) and, for the multisig types, a signatures list without placeholder.
C10_FullSignedNoPlaceholder ==
  (stage = "fullSigned" /\ call.fn = "parseSignatureScript" /\ call.target = 0)
    => /\ ~IsError(call.result)
       /\ call.result.scriptType = scriptType
       /\ Is2Of3 =>
            /\ placeholderCount(call.result) = expectedPlaceholderSignatures(scriptType, "fullSigned")
            /\ \A j \in DOMAIN call.result.signatures :
                 ~isPlaceholderSignature(call.result.signatures[j])

C10_Witness ==
  /\ stage = "fullSigned" /\ call.fn = "parseSignatureScript" /\ call.target = 0
  /\ scriptType = "p2shP2wsh"
  /\ call.result.scriptType = "p2shP2wsh"
  /\ Len(call.result.signatures) = Threshold
  /\ placeholderCount(call.result) = 0

\* the number of signature slots of a parsed input; the result for p2shP2pk has no
\* signatures field
slotCount(parsed) == IF "signatures" \in DOMAIN parsed THEN Len(parsed.signatures) ELSE 0

ParseCallOnTx == call.fn = "parseSignatureScript" /\ call.target = 0

\* C11 as stated: every parsed input has as many signature slots as its script
\* type has keys: 3 for p2sh, p2shP2wsh, p2wsh and p2tr at every signing stage,
\* 1 for p2shP2pk.
C11_SlotCountIsKeySetSize ==
  (ParseCallOnTx /\ ~IsError(call.result))
    => slotCount(call.result) = IF scriptType = "p2shP2pk" THEN 1 ELSE Len(fixtureKeys)

\* C11 amended: the slots of a half-signed or fully-signed 2-of-3 input are its
\* placeholders and the signatures of the keys that signed: 3 for a half-signed
\* p2sh, p2shP2wsh or p2wsh input (one per key of the script), 2 for a half-signed
\* p2tr input (one per key of the tapscript), 2 for every fully-signed input (the
\* threshold); the result for p2shP2pk has no signature slots.
C11_SlotCountIsPlaceholdersPlusSigners ==
  (ParseCallOnTx /\ stage \in {"halfSigned", "fullSigned"})
    => /\ ~IsError(call.result)
       /\ Is2Of3 =>
            /\ slotCount(call.result)
                 = expectedPlaceholderSignatures(scriptType, stage) + Len(signKeys)
            /\ Len(realSignatures(call.result)) = Len(signKeys)
            /\ stage = "halfSigned" => slotCount(call.result) = Len(call.result.publicKeys)
            /\ stage = "fullSigned" => slotCount(call.result) = Threshold
       /\ scriptType = "p2shP2pk" => slotCount(call.result) = 0

C11_Witness ==
  /\ ParseCallOnTx /\ stage = "fullSigned" /\ scriptType = "p2wsh"
  /\ slotCount(call.result) = Threshold
  /\ Len(call.result.publicKeys) = Len(fixtureKeys)

\* C12: parseSignatureScript on every input of a fully-signed p2shP2pk transaction
\* returns exactly {scriptType: 'p2shP2pk', inputClassification: 'scripthash',
\* isSegwitInput: false, p2shOutputClassification: 'pubkey'}: no signatures field
\* and no publicKeys field.
C12_P2shP2pkParsedExactly ==
  (ParseCallOnTx /\ scriptType = "p2shP2pk")
    => /\ call.result = expectedParsedP2shP2pk
       /\ DOMAIN call.result = {"scriptType", "inputClassification", "isSegwitInput",
                                "p2shOutputClassification"}
       /\ classifyInput(tx[call.inputIndex + 1].script) = call.result.inputClassification
       /\ classifyOutput(Last(tx[call.inputIndex + 1].script).script)
            = call.result.p2shOutputClassification

C12_Witness ==
  /\ ParseCallOnTx /\ scriptType = "p2shP2pk" /\ stage = "fullSigned"
  /\ Len(tx) = MaxInputs /\ call.inputIndex = MaxInputs - 1
  /\ signKeys = <<"user">>
  /\ call.result.scriptType = "p2shP2pk"
  /\ "signatures" \notin DOMAIN call.result

\* the signatures of a parsed input that decode: neither placeholder nor malformed
decodableSignatures(parsed) ==
  SelectSeq(parsed.signatures, LAMBDA v : v.t = "sig" /\ v.s # "malformed")

matchesScriptType(input, st) ==
  IF st = "p2shP2pk"
  THEN \E k \in KeySet :
         input = [script |-> <<rawSignature, Buf(compilePubkey(k))>>, witness |-> <<>>]
  ELSE \E slots \in SlotSequences,
          pubScript \in {pubScriptOf(st, pair) : pair \in SignKeyCombinations} :
         input = createInput(st, slots, pubScript)

scriptTypeByOuterAndWitness(input) ==
  LET outer == classifyInput(input.script)
      hasWitness == Len(input.witness) > 0
  IN IF outer = "scripthash" /\ ~hasWitness THEN "p2sh"
     ELSE IF outer = "scripthash" /\ hasWitness THEN "p2shP2wsh"
     ELSE IF Len(input.script) = 0 /\ classifyWitness(input.witness) = "witnessscripthash"
     THEN "p2wsh"
     ELSE IF Len(input.script) = 0 /\ classifyWitness(input.witness) = "taproot"
     THEN "p2tr"
     ELSE "undefined"

\* C16 as stated: the script type of a parsed input is selected from the
\* classification of the scriptSig and of the witness alone; a scripthash
\* scriptSig without witness gives p2sh.
C16_ScriptTypeFromOuterAndWitnessAlone ==
  (call.fn = "parseSignatureScript" /\ ~IsError(call.result))
    => call.result.scriptType
         = scriptTypeByOuterAndWitness(Target(call.target)[call.inputIndex + 1])

\* C16 amended: a scripthash scriptSig without witness gives p2shP2pk when its
\* redeem script classifies as pubkey and p2sh otherwise; a scripthash scriptSig
\* with a witness gives p2shP2wsh; an empty scriptSig with a witness gives p2wsh or
\* p2tr as the witness classifies as witnessscripthash or taproot.  Every input
\* of a built transaction is given the one script type it was built with.
C16_ScriptTypeFromClassifications ==
  call.fn = "parseSignatureScript"
    => LET input == Target(call.target)[call.inputIndex + 1]
           selected == scriptTypeByOuterAndWitness(input)
       IN /\ ~IsError(call.result)
          /\ call.result.scriptType
               = IF selected = "p2sh" /\ classifyPubScript(input) = "pubkey"
                 THEN "p2shP2pk"
                 ELSE selected
          /\ call.result.scriptType = scriptType
          /\ call.result.scriptType = "p2tr" => classifyTapscript(input) = "taprootnofn"
          /\ call.result.scriptType \in {"p2sh", "p2shP2wsh", "p2wsh"}
               => classifyPubScript(input) = "multisig"

C16_Witness ==
  /\ ParseCallOnTx /\ scriptType = "p2shP2pk"
  /\ classifyInput(tx[call.inputIndex + 1].script) = "scripthash"
  /\ Len(tx[call.inputIndex + 1].witness) = 0
  /\ classifyPubScript(tx[call.inputIndex + 1]) = "pubkey"
  /\ call.result.scriptType = "p2shP2pk"

\* the previous outputs that the digest of input inputIndex (0-based) of an
\* n-input transaction is computed from; verifySignature is handed the value of
\* the previous output of the input itself as its amount
requiredPrevOutputs(st, fn, inputIndex, n) ==
  IF st = "p2tr" THEN 1..n
  ELSE IF st \in {"p2shP2wsh", "p2wsh"} /\ fn = "verifySignatureWithPublicKeys"
  THEN {inputIndex + 1}
  ELSE {}

recoveredPublicKeys == parseSignatureScript(Target(call.target)[call.inputIndex + 1]).publicKeys

\* C18 as stated: when the caller supplies fewer or more public keys than the key
\* set recovered from the script of the input, verification ends with an error
\* instead of returning booleans.
C18_KeySetMismatchIsAnError ==
  (Is2Of3 /\ call.fn = "verifySignatureWithPublicKeys"
     /\ Len(call.pubkeys) # Len(recoveredPublicKeys))
    => IsError(call.result)

\* C18 amended: the number of supplied keys is not compared with the key set of
\* the script.  verifySignatureWithPublicKeys returns one boolean per supplied
\* key: for a p2tr input, whose tapscript holds the two keys of the signer pair,
\* the three wallet keys give three booleans and the key outside the tapscript
\* answers false; verifySignatureWithPublicKey answers with a boolean for its
\* single key.
C18_OneBooleanPerSuppliedKey ==
  /\ (Is2Of3 /\ call.fn = "verifySignatureWithPublicKeys")
       => /\ ~IsError(call.result)
          /\ DOMAIN call.result.ok = DOMAIN call.pubkeys
          /\ \A j \in DOMAIN call.pubkeys :
               call.pubkeys[j] \notin Range(recoveredPublicKeys) => ~call.result.ok[j]
          /\ call.target = 0
               => call.result = [ok |-> expectWithPublicKeys(signKeys, call.pubkeys)]
  /\ (Is2Of3 /\ call.fn = "verifySignature" /\ OnlyPublicKey(call.settings))
       => /\ ~IsError(call.withPublicKey)
          /\ call.withPublicKey.ok \in BOOLEAN

C18_Witness ==
  /\ Is2Of3 /\ call.fn = "verifySignatureWithPublicKeys" /\ call.target = 0
  /\ scriptType = "p2tr" /\ stage = "fullSigned" /\ signKeys = <<"bitgo", "user">>
  /\ Len(recoveredPublicKeys) = Threshold
  /\ call.pubkeys = fixtureKeys
  /\ call.result = [ok |-> <<TRUE, FALSE, TRUE>>]

\* the settings without their signatureIndex
withoutSignatureIndex(settings) ==
  IF hasPublicKey(settings) THEN [publicKey |-> settings.publicKey] ELSE NoSettings

C20_TemplatesRoundTrip ==
  /\ call.fn = "compile"
       => decompile(call.result)
            = [template |-> call.template, keys |-> call.keys, threshold |-> call.threshold]
  /\ (call.fn = "decompile" /\ ~IsError(call.result))
       => compile(call.result.template, call.result.keys, call.result.threshold)
            = call.script

C20_Witness ==
  /\ call.fn = "decompile"
  /\ call.script = <<"OP_2", "bitgo", "user", "backup", "OP_3", "OP_CHECKMULTISIG">>
  /\ call.result = [template |-> "multisig", keys |-> <<"bitgo", "user", "backup">>,
                    threshold |-> 2]

\* the high-S copies differ from the transaction in one signature each, and every
\* input of the transaction verifies as its signers say
OriginalKeepsVerifying ==
  (Is2Of3 /\ txsWithHighS.form = "highS")
    => /\ \A i \in 0..(Len(tx) - 1) :
            verifySignatureWithPublicKeys(tx, i, prevOutputs, fixtureKeys)
              = [ok |-> expectWithPublicKeys(signKeys, fixtureKeys)]
       /\ \A j \in DOMAIN txsWithHighS.txs :
            LET copy == txsWithHighS.txs[j]
                i == txsWithHighS.inputIndex + 1
            IN /\ copy # tx
               /\ \A h \in DOMAIN tx : h # i => copy[h] = tx[h]
               /\ Len(lowSPositions(copy[i])) = Len(lowSPositions(tx[i])) - 1

\* a step that builds no transaction: a call of the engine, its return, or the
\* high-S transform
CallStep == stage' = stage /\ stage # "init"

\* C21: verifySignature, verifySignatureWithPublicKeys, parseSignatureScript and
\* getTransactionWithHighS leave the transaction they are called on unchanged: no
\* such step changes its scriptSigs, witnesses or previous outputs, every input of
\* it verifies after the calls as before, and the high-S variants are copies that
\* differ from it in one signature of one input.
C21_CallsLeaveTransactionUnchanged ==
  /\ []OriginalKeepsVerifying
  /\ [][CallStep => (tx' = tx /\ prevOutputs' = prevOutputs /\ signKeys' = signKeys)]_vars

C21_Witness ==
  /\ Is2Of3 /\ txsWithHighS.form = "highS" /\ Len(txsWithHighS.txs) = Threshold
  /\ stage = "fullSigned"
  /\ call.fn = "verifySignatureWithPublicKeys" /\ call.target = 0
  /\ call.inputIndex = txsWithHighS.inputIndex
  /\ signatureCount(call.result.ok) = Threshold

\* ---------------------------------------------------------------------------
\* Concurrent calls.  Several tasks call the engine at once; each call is two
\* steps, parsing the input into its scratch state and then answering from it,
\* and the steps of different tasks interleave.  The tasks are kept in the
\* call variable: [fn |-> "tasks", tasks |-> one record per task, lastParsed
\* |-> the descriptor most recently parsed by any task].
\* ---------------------------------------------------------------------------

Tasks == {"a", "b"}

Idle == [pc |-> "idle"]

tasksOf(c) == IF c = NoCall THEN [p \in Tasks |-> Idle] ELSE c.tasks

\* every call reads the one descriptor that the latest call to parse has left
scratchOf_Shared(c, p) == c.lastParsed

\* the scratch state of a call is its own: the descriptor it parsed itself
scratchOf(c, p) == c.tasks[p].parsed

\* the answer of a call, computed from its scratch state
answerOf(c, p) ==
  LET task == c.tasks[p]
      parsed == scratchOf(c, p)
  IN IF task.fn = "parseSignatureScript" THEN parsed
     ELSE anyVerification(
            verificationsOfParsed(parsed, Len(tx), task.inputIndex,
                                  defaultTestOutputAmount, NoSettings, prevOutputs),
            NoSettings)

\* the answer of the same call made alone
answerAlone(task) ==
  IF task.fn = "parseSignatureScript"
  THEN parseSignatureScript(Target(task.target)[task.inputIndex + 1])
  ELSE verifySignature(Target(task.target), task.inputIndex, defaultTestOutputAmount,
                       NoSettings, prevOutputs)

\* a task enters a call and parses the input into its scratch state
TaskParse ==
  \E p \in Tasks, v \in Targets, fn \in {"parseSignatureScript", "verifySignature"} :
    LET i == IF txsWithHighS.form = "none" THEN 0 ELSE txsWithHighS.inputIndex
        parsed == parseSignatureScript(Target(v)[i + 1])
    IN /\ stage # "init"
       /\ tasksOf(call)[p].pc = "idle"
       /\ call' = [fn |-> "tasks",
                   tasks |-> [tasksOf(call) EXCEPT ![p] =
                                [pc |-> "parsed", fn |-> fn, target |-> v,
                                 inputIndex |-> i, parsed |-> parsed]],
                   lastParsed |-> parsed]
       /\ UNCHANGED <<scriptType, signKeys, cosigners, stage, tx, prevOutputs, txsWithHighS>>

\* the task answers from its scratch state
TaskAnswer ==
  \E p \in Tasks :
    /\ call # NoCall
    /\ call.tasks[p].pc = "parsed"
    /\ call' = [call EXCEPT !.tasks[p] =
                  [pc |-> "done", fn |-> @.fn, target |-> @.target,
                   inputIndex |-> @.inputIndex, parsed |-> @.parsed,
                   result |-> answerOf(call, p)]]
    /\ UNCHANGED <<scriptType, signKeys, cosigners, stage, tx, prevOutputs, txsWithHighS>>

\* the caller takes the answer of the task
TaskReturn ==
  \E p \in Tasks :
    /\ call # NoCall
    /\ call.tasks[p].pc = "done"
    /\ call' = LET tasks == [call.tasks EXCEPT ![p] = Idle]
               IN IF \A q \in Tasks : tasks[q].pc = "idle" THEN NoCall
                  ELSE [call EXCEPT !.tasks = tasks]
    /\ UNCHANGED <<scriptType, signKeys, cosigners, stage, tx, prevOutputs, txsWithHighS>>

ConcurrentNext ==
  \/ GetUnsignedTransaction2Of3
  \/ GetHalfSignedTransaction2Of3
  \/ GetFullSignedTransaction2Of3
  \/ GetTransactionWithMalformedSignature
  \/ TaskParse
  \/ TaskAnswer
  \/ TaskReturn

ConcurrentSpec == Init /\ [][ConcurrentNext]_vars

verifyingKeys(t, inputIndex, prevOuts) ==
  {k \in KeySet : verifySignatureWithPublicKey(t, inputIndex, prevOuts, k) = [ok |-> TRUE]}

placeholdersOf(t, inputIndex) == placeholderCount(parseSignatureScript(t[inputIndex + 1]))

\* a signer has signed: the transaction moves to the next stage of co-signing
SigningStep == Is2Of3 /\ stage \in {"unsigned", "halfSigned"} /\ stage' # stage

VerifyingKeysAtStage ==
  Is2Of3 => \A i \in 0..(Len(tx) - 1) :
    /\ verifyingKeys(tx, i, prevOutputs) = Range(signKeys)
    /\ stage = "unsigned" => signKeys = <<>>
    /\ stage = "halfSigned" => signKeys = <<cosigners[1]>>
    /\ stage = "fullSigned" => signKeys = cosigners /\ placeholdersOf(tx, i) = 0

\* C23: along unsigned -> half-signed by k1 -> fully-signed by k1 and k2 the set
\* of keys that verify on an input is {} then {k1} then {k1, k2}: every signing
\* step adds a key and keeps the keys that verified before, and the fully-signed
\* transaction has no placeholder left
C23_VerifyingKeysOnlyGrow ==
  /\ []VerifyingKeysAtStage
  /\ [][SigningStep =>
          \A i \in 0..(Len(tx) - 1) :
            /\ verifyingKeys(tx, i, prevOutputs) \subseteq verifyingKeys(tx', i, prevOutputs')
            /\ verifyingKeys(tx, i, prevOutputs) # verifyingKeys(tx', i, prevOutputs')
            /\ stage' = "fullSigned" =>
                  placeholdersOf(tx, i) > 0 /\ placeholdersOf(tx', i) = 0]_vars

\* a fully-signed transaction on which the signatures of both signers verify
C23_Witness ==
  /\ Is2Of3 /\ stage = "fullSigned" /\ call = NoCall /\ txsWithHighS = NoHighS
  /\ Len(tx) = MaxInputs
  /\ \A i \in 0..(Len(tx) - 1) :
       /\ verifyingKeys(tx, i, prevOutputs) = {cosigners[1], cosigners[2]}
       /\ placeholdersOf(tx, i) = 0

\* ---------------------------------------------------------------------------
\* Sol.presignTransaction.  The call is asynchronous: it runs up to an await,
\* the awaited tssUtils request settles, and the call goes on.  The call is
\* kept in the call variable: [fn |-> "presignTransaction", pc, params, log,
\* recreated, result], log being the tssUtils requests issued and settled so far.
\* ---------------------------------------------------------------------------

Undefined == [undefined |-> TRUE]

WalletTypes == {"hot", "cold", "custodial"}

TxRequestIds == {"txRequest1", "txRequest2"}

SerializedTxHexes == {"hexOld", "hexNew"}

\* the prebuilds a caller can hand over: none, one without a request id, one with
TxPrebuilds ==
  {Undefined, [txHex |-> "hexOld"]}
    \cup {[txHex |-> "hexOld", txRequestId |-> id] : id \in TxRequestIds}

PresignTransactionOptions ==
  [walletData : [type : WalletTypes], txPrebuild : TxPrebuilds,
   txHex : SerializedTxHexes, pub : {"user", "backup", "bitgo"}]

\* what getTxRequest can resolve to: the request with its rebuilt transactions
TxRequests ==
  [txRequestId : TxRequestIds, unsignedTxs : {<<>>} \cup {<<[serializedTxHex |-> h]>> : h \in SerializedTxHexes}]

\* params.txPrebuild?.txRequestId
txRequestIdOf(params) ==
  IF params.txPrebuild = Undefined \/ "txRequestId" \notin DOMAIN params.txPrebuild
  THEN "undefined"
  ELSE params.txPrebuild.txRequestId

\* the rebuilt request is returned with the transaction the caller came with
presignResult_KeepsTxHex(params, recreated) ==
  [params EXCEPT !.txPrebuild = recreated]

\* { ...params, txPrebuild: recreated, txHex: recreated.unsignedTxs[0].serializedTxHex }
presignResult(params, recreated) ==
  [params EXCEPT !.txPrebuild = recreated,
                 !.txHex = recreated.unsignedTxs[1].serializedTxHex]

\* the call runs to its first await, or returns or throws before it
PresignTransaction ==
  \E params \in PresignTransactionOptions :
    /\ stage = "init"
    /\ call = NoCall
    /\ call' =
         IF params.walletData.type # "hot"
         THEN [fn |-> "presignTransaction", pc |-> "returned", params |-> params,
               log |-> <<>>, result |-> params]
         ELSE IF txRequestIdOf(params) = "undefined"
         THEN [fn |-> "presignTransaction", pc |-> "thrown", params |-> params,
               log |-> <<>>, result |-> [error |-> "Missing txRequestId"]]
         ELSE [fn |-> "presignTransaction", pc |-> "deleteSignatureShares",
               params |-> params,
               log |-> <<[issued |-> "deleteSignatureShares", id |-> txRequestIdOf(params)]>>,
               result |-> Undefined]
    /\ UNCHANGED <<scriptType, signKeys, cosigners, stage, tx, prevOutputs, txsWithHighS>>

\* deleteSignatureShares resolves: the call goes on to issue getTxRequest
DeleteSignatureSharesResolves ==
  /\ call # NoCall /\ call.fn = "presignTransaction"
  /\ call.pc = "deleteSignatureShares"
  /\ call' = [call EXCEPT
                !.pc = "getTxRequest",
                !.log = @ \o <<[settled |-> "deleteSignatureShares", id |-> txRequestIdOf(call.params)],
                               [issued |-> "getTxRequest", id |-> txRequestIdOf(call.params)]>>]
  /\ UNCHANGED <<scriptType, signKeys, cosigners, stage, tx, prevOutputs, txsWithHighS>>

\* an awaited request rejects: the call throws what the request rejected with
RequestRejects ==
  /\ call # NoCall /\ call.fn = "presignTransaction"
  /\ call.pc \in {"deleteSignatureShares", "getTxRequest"}
  /\ call' = [call EXCEPT !.pc = "thrown", !.result = [error |-> "rejected: " \o call.pc]]
  /\ UNCHANGED <<scriptType, signKeys, cosigners, stage, tx, prevOutputs, txsWithHighS>>

\* getTxRequest resolves: the call returns the params with the rebuilt request
GetTxRequestResolves ==
  \E recreated \in TxRequests :
    /\ call # NoCall /\ call.fn = "presignTransaction"
    /\ call.pc = "getTxRequest"
    /\ recreated.txRequestId = txRequestIdOf(call.params)
    /\ call' =
         LET log == call.log \o <<[settled |-> "getTxRequest", id |-> recreated.txRequestId]>>
         IN IF recreated.unsignedTxs = <<>>
            THEN [fn |-> "presignTransaction", pc |-> "thrown", params |-> call.params,
                  log |-> log, recreated |-> recreated,
                  result |-> [error |-> "TypeError"]]
            ELSE [fn |-> "presignTransaction", pc |-> "returned", params |-> call.params,
                  log |-> log, recreated |-> recreated,
                  result |-> presignResult(call.params, recreated)]
    /\ UNCHANGED <<scriptType, signKeys, cosigners, stage, tx, prevOutputs, txsWithHighS>>

\* the caller takes what the call returned or threw
PresignSettled ==
  /\ call # NoCall /\ call.fn = "presignTransaction"
  /\ call.pc \in {"returned", "thrown"}
  /\ call' = NoCall
  /\ UNCHANGED <<scriptType, signKeys, cosigners, stage, tx, prevOutputs, txsWithHighS>>

PresignNext ==
  \/ PresignTransaction
  \/ DeleteSignatureSharesResolves
  \/ RequestRejects
  \/ GetTxRequestResolves
  \/ PresignSettled

PresignSpec == Init /\ [][PresignNext]_vars

\* the tssUtils requests of a complete call for request id, in their order
fullLog(id) ==
  <<[issued |-> "deleteSignatureShares", id |-> id],
    [settled |-> "deleteSignatureShares", id |-> id],
    [issued |-> "getTxRequest", id |-> id],
    [settled |-> "getTxRequest", id |-> id]>>

\* C24: presignTransaction returns the params of a wallet that is not hot as
\* they are, without a tssUtils request; throws 'Missing txRequestId' for a hot
\* wallet without txPrebuild.txRequestId, without a tssUtils request; otherwise
\* issues getTxRequest only after deleteSignatureShares has settled, both for
\* the request id of the prebuild, and returns the params with txPrebuild and
\* txHex taken from the request it fetched
C24_PresignRefetchesAfterDelete ==
  (call # NoCall /\ call.fn = "presignTransaction") =>
    LET params == call.params
        id == txRequestIdOf(params)
    IN /\ params.walletData.type # "hot"
            => call.pc = "returned" /\ call.result = params /\ call.log = <<>>
       /\ (params.walletData.type = "hot" /\ id = "undefined")
            => /\ call.pc = "thrown" /\ call.log = <<>>
               /\ call.result = [error |-> "Missing txRequestId"]
       /\ \E n \in 0..4 : call.log = SubSeq(fullLog(id), 1, n)
       /\ (params.walletData.type = "hot" /\ call.pc = "returned")
            => /\ call.log = fullLog(id)
               /\ call.result.txPrebuild = call.recreated
               /\ call.result.txHex = call.recreated.unsignedTxs[1].serializedTxHex
               /\ call.result.walletData = params.walletData
               /\ call.result.pub = params.pub
               /\ DOMAIN call.result = DOMAIN params

\* a hot wallet's call has returned a rebuilt transaction that is not the one
\* it came with
C24_Witness ==
  /\ call # NoCall /\ call.fn = "presignTransaction"
  /\ call.params.walletData.type = "hot"
  /\ call.pc = "returned"
  /\ call.result.txHex = "hexNew" /\ call.params.txHex = "hexOld"
  /\ call.result.txPrebuild # call.params.txPrebuild

\* ---------------------------------------------------------------------------
\* Sol.verifyTransaction.  A raw transaction is a record of its encoding and of
\* the transaction it decodes to; params are the call's arguments.
\* ---------------------------------------------------------------------------

solChain == "tsol"

walletRoot == "rootAddress"

\* what a recipient or an output can be: optional tokenName, and a field that
\* is none of address, amount, tokenName
SolRecipients ==
  {[address |-> "addr1", amount |-> 1],
   [address |-> "addr1", amount |-> 2],
   [address |-> "addr2", amount |-> 1, tokenName |-> "tsol:usdc"],
   [address |-> "addr1", amount |-> 1, data |-> "note"]}

SolOutputs ==
  {[address |-> "addr1", amount |-> 1],
   [address |-> "addr1", amount |-> 2],
   [address |-> "addr2", amount |-> 1, tokenName |-> "tsol:usdc"]}

ListsOf(S) == {<<>>} \cup {<<a>> : a \in S} \cup {l \in S \X S : l[1] # l[2]}

SolMemos == {"memo1", "memo2"}

SolNonces ==
  {[walletNonceAddress |-> n, authWalletAddress |-> walletRoot] : n \in {"nonce1", "nonce2"}}

\* the transactions a raw transaction can decode to
SolTransactions ==
  [outputs : ListsOf(SolOutputs), memo : {"undefined", "memo1"},
   feePayer : {walletRoot, "addr1"}, durableNonce : {[walletNonceAddress |-> "nonce1", authWalletAddress |-> walletRoot]}]

\* Buffer.from(rawTx, 'hex').toString('base64')
\* txParams.recipients !== undefined
hasRecipients(txParams) == "recipients" \in DOMAIN txParams

hexToBase64(rawTx) == [rawTx EXCEPT !.encoding = "base64"]

\* HEX_REGEX.test(rawTx)
isHex(rawTx) == rawTx.encoding = "hex"

\* _.pick(recipient, ['address', 'amount', 'tokenName'])
pick(r) == [f \in DOMAIN r \cap {"address", "amount", "tokenName"} |-> r[f]]

assetNameOf(r) == IF "tokenName" \in DOMAIN r THEN r.tokenName ELSE solChain

sumAmounts(rs, asset) ==
  LET sumTo[j \in 0..Len(rs)] ==
        IF j = 0 THEN 0
        ELSE sumTo[j - 1] + (IF assetNameOf(rs[j]) = asset THEN rs[j].amount ELSE 0)
  IN sumTo[Len(rs)]

\* asset name to transfer amount map
totalAmountOf(rs) ==
  [asset \in {assetNameOf(rs[j]) : j \in DOMAIN rs} |-> sumAmounts(rs, asset)]

\* the fee payer is checked only against a wallet that has a root address
feePayerRejected_OnlyKnownRoot(consolidateId, feePayer, walletRootAddress) ==
  /\ consolidateId = "undefined"
  /\ walletRootAddress # "undefined"
  /\ feePayer # walletRootAddress

\* consolidateId === undefined && transactionJson.feePayer !== walletRootAddress
feePayerRejected(consolidateId, feePayer, walletRootAddress) ==
  consolidateId = "undefined" /\ feePayer # walletRootAddress

solVerifyTransaction(params) ==
  LET txPrebuild == params.txPrebuild
      rawTx == IF txPrebuild.txBase64 # Undefined THEN txPrebuild.txBase64 ELSE txPrebuild.txHex
  IN IF rawTx = Undefined
     THEN [error |-> "missing required tx prebuild property txBase64 or txHex"]
     ELSE
       LET rawTxBase64 == IF isHex(rawTx) THEN hexToBase64(rawTx) ELSE rawTx
           explainedTx == rawTxBase64.tx
           recipients == params.txParams.recipients
           filteredRecipients == [j \in DOMAIN recipients |-> pick(recipients[j])]
           filteredOutputs == [j \in DOMAIN explainedTx.outputs |-> pick(explainedTx.outputs[j])]
       IN IF hasRecipients(params.txParams) /\ filteredOutputs # filteredRecipients
          THEN [error |-> "Tx outputs does not match with expected txParams recipients"]
          ELSE IF params.memo # Undefined /\ params.memo.value # explainedTx.memo
          THEN [error |-> "Tx memo does not match with expected txParams recipient memo"]
          ELSE IF hasRecipients(params.txParams)
                  /\ totalAmountOf(explainedTx.outputs) # totalAmountOf(recipients)
          THEN [error |-> "Tx total amount does not match with expected total amount field"]
          ELSE IF feePayerRejected(txPrebuild.consolidateId, explainedTx.feePayer,
                                   params.walletRootAddress)
          THEN [error |-> "Tx fee payer is not the wallet root address"]
          ELSE IF explainedTx.durableNonce # params.durableNonce
          THEN [error |-> "Tx durableNonce does not match with param durableNonce"]
          ELSE [ok |-> TRUE]

SolVerifyTransactionOptions ==
  {[txParams |-> txParams,
    txPrebuild |-> [txBase64 |-> IF "base64" \in encodings
                                 THEN [encoding |-> "base64", tx |-> transaction] ELSE Undefined,
                    txHex |-> IF "hex" \in encodings
                              THEN [encoding |-> "hex", tx |-> transaction] ELSE Undefined,
                    consolidateId |-> consolidateId],
    memo |-> memo, durableNonce |-> durableNonce, walletRootAddress |-> root] :
     txParams \in {[type |-> "transfer"]}
                    \cup {[type |-> "transfer", recipients |-> recipients] :
                            recipients \in ListsOf(SolRecipients)},
     encodings \in {{}, {"base64"}, {"hex"}},
     transaction \in SolTransactions,
     consolidateId \in {"undefined", "consolidate1"},
     memo \in {Undefined} \cup {[value |-> m] : m \in SolMemos},
     durableNonce \in {Undefined} \cup SolNonces,
     root \in {walletRoot, "undefined"}}

SolVerifyTransaction ==
  /\ stage = "init"
  /\ call = NoCall
  /\ \E params \in SolVerifyTransactionOptions :
       call' = [fn |-> "verifyTransaction", params |-> params,
                result |-> solVerifyTransaction(params)]
  /\ UNCHANGED <<scriptType, signKeys, cosigners, stage, tx, prevOutputs, txsWithHighS>>

SolVerifyNext == SolVerifyTransaction \/ Return

SolVerifySpec == Init /\ [][SolVerifyNext]_vars

\* what C25 requires of a call that returns true
solRequirements(params) ==
  LET txPrebuild == params.txPrebuild
      rawTx == IF txPrebuild.txBase64 # Undefined THEN txPrebuild.txBase64 ELSE txPrebuild.txHex
      recipients == params.txParams.recipients
  IN /\ txPrebuild.txBase64 # Undefined \/ txPrebuild.txHex # Undefined
     /\ "recipients" \in DOMAIN params.txParams =>
          /\ Len(rawTx.tx.outputs) = Len(recipients)
          /\ \A j \in DOMAIN recipients :
               \A f \in {"address", "amount", "tokenName"} :
                 /\ f \in DOMAIN recipients[j] <=> f \in DOMAIN rawTx.tx.outputs[j]
                 /\ f \in DOMAIN recipients[j] => recipients[j][f] = rawTx.tx.outputs[j][f]
          /\ \A asset \in {solChain, "tsol:usdc"} :
               sumAmounts(rawTx.tx.outputs, asset) = sumAmounts(recipients, asset)
     /\ params.memo # Undefined => params.memo.value = rawTx.tx.memo
     /\ txPrebuild.consolidateId = "undefined" => rawTx.tx.feePayer = params.walletRootAddress
     /\ rawTx.tx.durableNonce = params.durableNonce

\* C25: verifyTransaction returns true or throws, never false; it returns true
\* only for a raw transaction that is present, whose outputs equal the
\* recipients (when given) on address, amount and tokenName with equal totals
\* per asset, whose memo is the supplied memo (when given), whose fee payer is
\* the wallet root address unless consolidateId is defined, and whose
\* durableNonce is the durableNonce of the params; otherwise it throws
C25_SolVerifyTransactionTrueOrThrows ==
  (call # NoCall /\ call.fn = "verifyTransaction") =>
    /\ call.result = [ok |-> TRUE] \/ "error" \in DOMAIN call.result
    /\ call.result = [ok |-> TRUE] => solRequirements(call.params)
    /\ ~solRequirements(call.params) => "error" \in DOMAIN call.result

\* a call that returned true for a transaction to two recipients, one of them
\* with a field other than address, amount and tokenName, with memo and nonce
C25_Witness ==
  /\ call # NoCall /\ call.fn = "verifyTransaction"
  /\ call.result = [ok |-> TRUE]
  /\ "recipients" \in DOMAIN call.params.txParams
  /\ Len(call.params.txParams.recipients) = 2
  /\ "data" \in DOMAIN call.params.txParams.recipients[1]
  /\ call.params.memo # Undefined
  /\ call.params.durableNonce # Undefined
  /\ call.params.txPrebuild.txBase64 = Undefined
  /\ call.params.txPrebuild.consolidateId = "undefined"

\* ---------------------------------------------------------------------------
\* Eth.verifyTransaction.  An address string is a record: an ETH address is an
\* account written in lower case or with a checksum (mixed case), any other
\* string is a name.  An amount is its numeric value.
\* ---------------------------------------------------------------------------

ethChain == "teth"

EthAccounts == {"account1", "account2", "batcher"}

EthAddresses == [account : EthAccounts, checksum : BOOLEAN]

batcherContract == [account |-> "batcher", checksum |-> TRUE]

\* address.toLowerCase()
toLowerCase(address) ==
  IF "checksum" \in DOMAIN address THEN [address EXCEPT !.checksum = FALSE] ELSE address

\* !!address.match(/0x[a-fA-F0-9]{40}/)
isETHAddress(address) == "account" \in DOMAIN address

\* only the amount of the first recipient is expected
expectedTotalAmount_FirstRecipient(recipients) == recipients[1].amount

\* expectedTotalAmount = expectedTotalAmount.plus(txParams.recipients[i].amount)
expectedTotalAmount(recipients) ==
  LET total[i \in 0..Len(recipients)] ==
        IF i = 0 THEN 0 ELSE total[i - 1] + recipients[i].amount
  IN total[Len(recipients)]

\* txPrebuild.coin === this.getChain()
verifyCoin(txPrebuild) == txPrebuild.coin = ethChain

\* the error validateHopPrebuild throws for a hop prebuild and the original
\* recipients, or "none"
validateHopPrebuild(hopPrebuild, recipients) ==
  IF hopPrebuild.defect = "hsmSignature" THEN "Hop txid signature invalid"
  ELSE IF hopPrebuild.tx.to = Undefined THEN "Transaction does not have a destination address"
  ELSE IF hopPrebuild.tx.value # recipients[1].amount
  THEN "Hop amount does not equal original amount"
  ELSE IF toLowerCase(hopPrebuild.tx.to) # toLowerCase(recipients[1].address)
  THEN "Hop destination does not equal original recipient"
  ELSE IF hopPrebuild.defect = "signature" THEN "Invalid hop transaction signature"
  ELSE IF hopPrebuild.defect = "txid" THEN "Signed hop txid does not equal actual txid"
  ELSE "none"

hasField(r, f) == r # Undefined /\ f \in DOMAIN r

ethVerifyTransaction(params, ethNetwork) ==
  LET txParams == params.txParams
      txPrebuild == params.txPrebuild
  IN IF ~hasField(txParams, "recipients") \/ ~hasField(txPrebuild, "recipients")
        \/ params.wallet = Undefined
     THEN [error |-> "missing params"]
     ELSE IF txParams.hop /\ Len(txParams.recipients) > 1
     THEN [error |-> "tx cannot be both a batch and hop transaction"]
     ELSE IF Len(txPrebuild.recipients) # 1
     THEN [error |-> "txPrebuild should only have 1 recipient"]
     ELSE
       LET branch ==
             IF txParams.hop /\ txPrebuild.hopTransaction # Undefined
             THEN IF Len(txParams.recipients) # 1
                  THEN "hop transaction only supports 1 recipient"
                  ELSE IF toLowerCase(txPrebuild.hopTransaction.tx.sender)
                            # toLowerCase(txPrebuild.recipients[1].address)
                  THEN "recipient address of txPrebuild does not match hop address"
                  ELSE validateHopPrebuild(txPrebuild.hopTransaction, txParams.recipients)
             ELSE IF Len(txParams.recipients) > 1
             THEN IF expectedTotalAmount(txParams.recipients) # txPrebuild.recipients[1].amount
                  THEN "batch transaction amount in txPrebuild does not match txParams"
                  ELSE IF ethNetwork.batcherContractAddress = Undefined
                          \/ toLowerCase(ethNetwork.batcherContractAddress)
                               # toLowerCase(txPrebuild.recipients[1].address)
                  THEN "recipient address of txPrebuild does not match batcher address"
                  ELSE "none"
             ELSE IF Len(txParams.recipients) # 1
             THEN "normal transaction only supports 1 recipient"
             ELSE IF txParams.recipients[1].amount # txPrebuild.recipients[1].amount
             THEN "normal transaction amount in txPrebuild does not match txParams"
             ELSE IF isETHAddress(txParams.recipients[1].address)
                     /\ txParams.recipients[1].address # txPrebuild.recipients[1].address
             THEN "destination address in normal txPrebuild does not match that in txParams"
             ELSE "none"
       IN IF branch # "none" THEN [error |-> branch]
          ELSE IF ~verifyCoin(txPrebuild)
          THEN [error |-> "coin in txPrebuild did not match that in txParams"]
          ELSE [ok |-> TRUE]

\* the recipients a client asks for
EthRecipients ==
  [address : {[account |-> "account1", checksum |-> FALSE],
              [account |-> "account1", checksum |-> TRUE],
              [name |-> "not an address"]},
   amount : {1, 2}]

\* the recipients a prebuild comes with
EthPrebuildRecipients ==
  [address : {[account |-> "account1", checksum |-> FALSE],
              [account |-> "account2", checksum |-> FALSE],
              [account |-> "batcher", checksum |-> FALSE]},
   amount : {1, 2, 3}]

HopPrebuilds ==
  {Undefined}
    \cup [tx : [sender : {[account |-> "account2", checksum |-> TRUE]},
                to : {[account |-> "account1", checksum |-> TRUE]},
                value : {1}],
          defect : {"none", "signature"}]

EthTxParams ==
  {Undefined, [hop |-> FALSE]}
    \cup [hop : BOOLEAN, recipients : ListsOf(EthRecipients)]

EthTxPrebuilds ==
  {Undefined}
    \cup [recipients : {<<>>} \cup {<<r>> : r \in EthPrebuildRecipients}
                         \cup {<<r, r>> : r \in EthPrebuildRecipients},
          coin : {ethChain, "tbtc"}, hopTransaction : HopPrebuilds]

EthNetworks == {[batcherContractAddress |-> Undefined], [batcherContractAddress |-> batcherContract]}

EthVerifyTransaction ==
  /\ stage = "init"
  /\ call = NoCall
  /\ \E txParams \in EthTxParams, txPrebuild \in EthTxPrebuilds,
        wallet \in {Undefined, [id |-> "wallet1"]}, ethNetwork \in EthNetworks :
       LET params == [txParams |-> txParams, txPrebuild |-> txPrebuild, wallet |-> wallet]
       IN call' = [fn |-> "Eth.verifyTransaction", params |-> params, ethNetwork |-> ethNetwork,
                   result |-> ethVerifyTransaction(params, ethNetwork)]
  /\ UNCHANGED <<scriptType, signKeys, cosigners, stage, tx, prevOutputs, txsWithHighS>>

EthVerifyNext == EthVerifyTransaction \/ Return

EthVerifySpec == Init /\ [][EthVerifyNext]_vars

\* the sum of the amounts the client asks for
requestedAmount(recipients) ==
  IF Len(recipients) = 0 THEN 0
  ELSE IF Len(recipients) = 1 THEN recipients[1].amount
  ELSE recipients[1].amount + recipients[2].amount

\* what a prebuild has to meet whatever address the client asks for
prebuildComplies(params, ethNetwork, addresses) ==
  LET requested == params.txParams.recipients
      prebuilt == params.txPrebuild.recipients
  IN /\ Len(prebuilt) = 1
     /\ params.txPrebuild.coin = ethChain
     /\ ~(params.txParams.hop /\ Len(requested) > 1)
     /\ (~params.txParams.hop /\ Len(requested) > 1) =>
          /\ requestedAmount(requested) = prebuilt[1].amount
          /\ ethNetwork.batcherContractAddress # Undefined
          /\ toLowerCase(prebuilt[1].address) = toLowerCase(ethNetwork.batcherContractAddress)
     /\ (~params.txParams.hop /\ Len(requested) = 1) =>
          /\ requested[1].amount = prebuilt[1].amount
          /\ requested[1].address \in addresses => prebuilt[1].address = requested[1].address

EthVerifyCall == call # NoCall /\ call.fn = "Eth.verifyTransaction"

AllAddressStrings == EthAddresses \cup {[name |-> "not an address"]}

\* C26 as stated: a true answer for a single-recipient request that is not a
\* hop means that the prebuild's recipient address is the requested address,
\* whatever the requested address is
C26_PrebuildAddressAlwaysRequestedAddress ==
  EthVerifyCall =>
    /\ call.result = [ok |-> TRUE] \/ "error" \in DOMAIN call.result
    /\ call.result = [ok |-> TRUE]
         => prebuildComplies(call.params, call.ethNetwork, AllAddressStrings)

\* C26: verifyTransaction returns true or throws, never false; it returns true
\* only for a prebuild with one recipient and the chain's coin, not for a hop
\* request with several recipients; for several recipients without hop the
\* prebuild amount is their sum and its recipient the batcher contract; for
\* one recipient without hop the amounts are equal and, when the requested
\* address is an ETH address, the prebuild's recipient address is that address
C26_PrebuildCompliesOrThrows ==
  EthVerifyCall =>
    /\ call.result = [ok |-> TRUE] \/ "error" \in DOMAIN call.result
    /\ call.result = [ok |-> TRUE]
         => prebuildComplies(call.params, call.ethNetwork, EthAddresses)

\* true for a request to one ETH address whose prebuild goes to that address
C26_Witness ==
  /\ EthVerifyCall
  /\ call.result = [ok |-> TRUE]
  /\ ~call.params.txParams.hop
  /\ Len(call.params.txParams.recipients) = 1
  /\ isETHAddress(call.params.txParams.recipients[1].address)
  /\ call.params.txPrebuild.recipients[1].address = call.params.txParams.recipients[1].address

\* ---------------------------------------------------------------------------
\* Eth.signTransaction and Eth.signFinal.  A JavaScript value is a record
\* with one field that names its type: [undefined], [string], [number],
\* [array], [object].
\* ---------------------------------------------------------------------------

EXPIRETIME_DEFAULT == 604800

isUndefined(v) == v = Undefined

isObject(v) == "object" \in DOMAIN v \/ "array" \in DOMAIN v

isString(v) == "string" \in DOMAIN v

isNumber(v) == "number" \in DOMAIN v

isArray(v) == "array" \in DOMAIN v

\* what a condition takes for true: neither undefined nor 0 nor ''
truthy(v) ==
  /\ ~isUndefined(v)
  /\ isNumber(v) => v.number # 0
  /\ isString(v) => v.string # ""

\* the left operand if it is truthy, else the right one
orElse(a, b) == IF truthy(a) THEN a ELSE b

\* the property of an object, undefined if the object has none of the name
property(obj, name) == IF name \in DOMAIN obj.object THEN obj.object[name] ELSE Undefined

validPrv == [string |-> "xprv user"]

\* bip32.fromBase58 / Util.xprvToEthPrivateKey accept the string
isPrivateKey(prv) == prv = validPrv

\* the signature is always valid for a week from now
expireTimeOf_WeekFromNow(params, secondsSinceEpoch) ==
  [number |-> secondsSinceEpoch + EXPIRETIME_DEFAULT]

\* params.expireTime || secondsSinceEpoch + EXPIRETIME_DEFAULT
expireTimeOf(params, secondsSinceEpoch) ==
  orElse(params.expireTime, [number |-> secondsSinceEpoch + EXPIRETIME_DEFAULT])

Thrown(message) == [result |-> [error |-> message], signed |-> <<>>]

\* the operation hash of a transfer, or the error getOperationSha3ForExecuteAndConfirm throws
getOperationSha3ForExecuteAndConfirm(recipients, expireTime, contractSequenceId) ==
  IF ~truthy(recipients) \/ ~isArray(recipients) THEN [error |-> "expecting array of recipients"]
  ELSE IF Len(recipients.array) # 1 THEN [error |-> "must send to exactly 1 recipient"]
  ELSE IF ~isNumber(expireTime)
  THEN [error |-> "expireTime must be number of seconds since epoch"]
  ELSE IF ~isNumber(contractSequenceId) THEN [error |-> "contractSequenceId must be number"]
  ELSE [hash |-> [recipient |-> recipients.array[1], expireTime |-> expireTime.number,
                  contractSequenceId |-> contractSequenceId.number]]

\* result and signatures made of signFinal
signFinal(params) ==
  LET txPrebuild == params.txPrebuild
      halfSigned == property(txPrebuild, "halfSigned")
  IN IF ~isNumber(params.signingKeyNonce) /\ isUndefined(halfSigned)
     THEN Thrown("TypeError")
     ELSE IF ~isNumber(params.signingKeyNonce) /\ ~isNumber(property(halfSigned, "backupKeyNonce"))
     THEN Thrown("must have at least one of signingKeyNonce and backupKeyNonce")
     ELSE IF isUndefined(params.walletContractAddress)
     THEN Thrown("params must include walletContractAddress, but got undefined")
     ELSE IF ~isPrivateKey(params.prv) THEN Thrown("missing private key")
     ELSE IF isUndefined(property(txPrebuild, "recipients")) \/ isUndefined(halfSigned)
     THEN Thrown("TypeError")
     ELSE LET ethTx ==
                [to |-> params.walletContractAddress,
                 nonce |-> IF ~isUndefined(params.signingKeyNonce) THEN params.signingKeyNonce
                           ELSE property(halfSigned, "backupKeyNonce"),
                 recipient |-> property(txPrebuild, "recipients").array[1],
                 expireTime |-> property(halfSigned, "expireTime"),
                 contractSequenceId |-> property(halfSigned, "contractSequenceId"),
                 signature |-> property(halfSigned, "signature")]
              signature == [key |-> params.prv, message |-> ethTx]
          IN [result |-> [txHex |-> [tx |-> ethTx, signature |-> signature]],
              signed |-> <<signature>>]

\* result and signatures made of signTransaction at time secondsSinceEpoch
ethSignTransaction(params, secondsSinceEpoch) ==
  LET txPrebuild == params.txPrebuild
      userPrv == params.prv
  IN IF isUndefined(txPrebuild) THEN Thrown("missing txPrebuild parameter")
     ELSE IF ~isObject(txPrebuild) THEN Thrown("txPrebuild must be an object")
     ELSE IF isUndefined(userPrv) THEN Thrown("missing prv parameter to sign transaction")
     ELSE IF ~isString(userPrv) THEN Thrown("prv must be a string")
     ELSE
       LET recipients == orElse(property(txPrebuild, "recipients"), params.recipients)
       IN IF ~truthy(recipients) \/ ~isArray(recipients)
          THEN Thrown("recipients missing or not array")
          ELSE IF Len(recipients.array) = 0 THEN Thrown("recipients empty")
          ELSE IF params.isLastSignature
          THEN signFinal([params EXCEPT !.recipients = recipients])
          ELSE
            LET expireTime == expireTimeOf(params, secondsSinceEpoch)
                sequenceId == property(txPrebuild, "nextContractSequenceId")
                operationHash ==
                  getOperationSha3ForExecuteAndConfirm(recipients, expireTime, sequenceId)
            IN IF isUndefined(sequenceId)
               THEN Thrown("transaction prebuild missing required property nextContractSequenceId")
               ELSE IF "error" \in DOMAIN operationHash THEN Thrown(operationHash.error)
               ELSE IF ~isPrivateKey(userPrv) THEN Thrown("invalid private key")
               ELSE LET signature == [key |-> userPrv, message |-> operationHash.hash]
                    IN [result |->
                          [halfSigned |->
                             [recipients |-> recipients,
                              expireTime |-> expireTime,
                              contractSequenceId |-> sequenceId,
                              operationHash |-> operationHash.hash,
                              signature |-> signature,
                              backupKeyNonce |-> property(txPrebuild, "backupKeyNonce")]],
                        signed |-> <<signature>>]

ethRecipient == [address |-> "account1", amount |-> 1]

PrebuildRecipients ==
  {Undefined, [array |-> <<>>], [array |-> <<ethRecipient>>], [string |-> "account1"]}

HalfSigneds ==
  {Undefined,
   [object |-> [expireTime |-> [number |-> 5000], contractSequenceId |-> [number |-> 7],
                signature |-> [string |-> "first signature"]]],
   [object |-> [expireTime |-> [number |-> 5000], contractSequenceId |-> [number |-> 7],
                signature |-> [string |-> "first signature"],
                backupKeyNonce |-> [number |-> 3]]]}

SignTxPrebuilds ==
  {Undefined, [string |-> "prebuild"]}
    \cup {[object |-> [recipients |-> recipients, nextContractSequenceId |-> sequenceId,
                       halfSigned |-> halfSigned]] :
            recipients \in PrebuildRecipients,
            sequenceId \in {Undefined, [number |-> 7]},
            halfSigned \in HalfSigneds}

SignTransactionOptions ==
  [txPrebuild : SignTxPrebuilds,
   prv : {Undefined, [number |-> 1], validPrv, [string |-> "xpub user"]},
   recipients : {Undefined, [array |-> <<>>],
                 [array |-> <<[address |-> "account2", amount |-> 2]>>]},
   isLastSignature : BOOLEAN,
   expireTime : {Undefined, [number |-> 0], [number |-> 9000]},
   signingKeyNonce : {Undefined, [number |-> 4]},
   walletContractAddress : {Undefined, [string |-> "wallet contract"]}]

EthSignTransaction ==
  /\ stage = "init"
  /\ call = NoCall
  /\ \E params \in SignTransactionOptions, secondsSinceEpoch \in {1000, 2000} :
       LET outcome == ethSignTransaction(params, secondsSinceEpoch)
       IN call' = [fn |-> "signTransaction", params |-> params,
                   secondsSinceEpoch |-> secondsSinceEpoch,
                   result |-> outcome.result, signed |-> outcome.signed]
  /\ UNCHANGED <<scriptType, signKeys, cosigners, stage, tx, prevOutputs, txsWithHighS>>

EthSignNext == EthSignTransaction \/ Return

EthSignSpec == Init /\ [][EthSignNext]_vars

\* the error the parameter checks end with, "none" when they all pass
firstFailedCheck(params) ==
  LET prebuilt == IF isObject(params.txPrebuild) /\ "object" \in DOMAIN params.txPrebuild
                  THEN property(params.txPrebuild, "recipients") ELSE Undefined
      recipients == IF truthy(prebuilt) THEN prebuilt ELSE params.recipients
  IN IF params.txPrebuild = Undefined THEN "missing txPrebuild parameter"
     ELSE IF params.txPrebuild = [string |-> "prebuild"] THEN "txPrebuild must be an object"
     ELSE IF params.prv = Undefined THEN "missing prv parameter to sign transaction"
     ELSE IF "string" \notin DOMAIN params.prv THEN "prv must be a string"
     ELSE IF "array" \notin DOMAIN recipients THEN "recipients missing or not array"
     ELSE IF recipients.array = <<>> THEN "recipients empty"
     ELSE "none"

EthSignCall == call # NoCall /\ call.fn = "signTransaction"

\* C27: signTransaction throws the error of the first parameter check that
\* fails, in the order txPrebuild, prv, recipients, recipients empty, and signs
\* nothing when it throws; past the checks a last signature is what signFinal
\* makes of the params, {txHex} when it returns; otherwise a prebuild without
\* nextContractSequenceId throws, and a result is {halfSigned} with
\* contractSequenceId = nextContractSequenceId and expireTime = params.expireTime
\* or, without one, a week from now
C27_SignsOnlyAfterChecks ==
  EthSignCall =>
    LET params == call.params
        failed == firstFailedCheck(params)
        thrown == "error" \in DOMAIN call.result
    IN /\ failed # "none" => call.result = [error |-> failed]
       /\ thrown => call.signed = <<>>
       /\ ~thrown => Len(call.signed) = 1 /\ call.signed[1].key = params.prv
       /\ (failed = "none" /\ params.isLastSignature) =>
            /\ thrown \/ DOMAIN call.result = {"txHex"}
            /\ ~thrown => call.result.txHex.signature = call.signed[1]
       /\ (failed = "none" /\ ~params.isLastSignature) =>
            /\ "nextContractSequenceId" \notin DOMAIN params.txPrebuild.object
                  \/ params.txPrebuild.object.nextContractSequenceId = Undefined
                 => call.result
                      = [error |-> "transaction prebuild missing required property nextContractSequenceId"]
            /\ ~thrown =>
                 /\ DOMAIN call.result = {"halfSigned"}
                 /\ call.result.halfSigned.contractSequenceId
                      = params.txPrebuild.object.nextContractSequenceId
                 /\ call.result.halfSigned.expireTime.number
                      = IF params.expireTime \in {Undefined, [number |-> 0]}
                        THEN call.secondsSinceEpoch + EXPIRETIME_DEFAULT
                        ELSE params.expireTime.number
                 /\ call.result.halfSigned.signature = call.signed[1]

\* a half-signed result with the caller's expireTime
C27_Witness ==
  /\ EthSignCall
  /\ "halfSigned" \in DOMAIN call.result
  /\ call.params.expireTime = [number |-> 9000]
  /\ call.result.halfSigned.expireTime = [number |-> 9000]
  /\ call.params.recipients # Undefined
  /\ call.result.halfSigned.recipients # call.params.recipients

\* ---------------------------------------------------------------------------
\* Eth.setGasPrice and Eth.setGasLimit.  ethGasConfigs is the configuration
\* the coin is built with; the user value is undefined or a number.
\* ---------------------------------------------------------------------------

MaxGas == 4

\* a minimum, a default and a maximum, in this order
GasBounds ==
  {b \in [minimum : 1..MaxGas, default : 1..MaxGas, maximum : 1..MaxGas] :
     b.minimum <= b.default /\ b.default <= b.maximum}

EthGasConfigs ==
  {[minimumGasPrice |-> price.minimum, defaultGasPrice |-> price.default,
    maximumGasPrice |-> price.maximum,
    minimumGasLimit |-> limit.minimum, defaultGasLimit |-> limit.default,
    maximumGasLimit |-> limit.maximum] : price \in GasBounds, limit \in GasBounds}

UserGasValues == {Undefined} \cup {[number |-> n] : n \in 0..(MaxGas + 1)}

\* a gas price above the maximum is taken as it is
setGasPrice_NoMaximum(userGasPrice, ethGasConfigs) ==
  IF ~truthy(userGasPrice) THEN [number |-> ethGasConfigs.defaultGasPrice]
  ELSE IF userGasPrice.number < ethGasConfigs.minimumGasPrice
  THEN [error |-> "Gas price must be between minimum and maximum"]
  ELSE userGasPrice

setGasPrice(userGasPrice, ethGasConfigs) ==
  IF ~truthy(userGasPrice) THEN [number |-> ethGasConfigs.defaultGasPrice]
  ELSE LET gasPriceMax == ethGasConfigs.maximumGasPrice
           gasPriceMin == ethGasConfigs.minimumGasPrice
       IN IF userGasPrice.number < gasPriceMin \/ userGasPrice.number > gasPriceMax
          THEN [error |-> "Gas price must be between minimum and maximum"]
          ELSE userGasPrice

setGasLimit(userGasLimit, ethGasConfigs) ==
  IF ~truthy(userGasLimit) THEN [number |-> ethGasConfigs.defaultGasLimit]
  ELSE LET gasLimitMax == ethGasConfigs.maximumGasLimit
           gasLimitMin == ethGasConfigs.minimumGasLimit
       IN IF userGasLimit.number < gasLimitMin \/ userGasLimit.number > gasLimitMax
          THEN [error |-> "Gas limit must be between minimum and maximum"]
          ELSE userGasLimit

SetGasPrice ==
  /\ stage = "init"
  /\ call = NoCall
  /\ \E ethGasConfigs \in EthGasConfigs, userGasPrice \in UserGasValues :
       call' = [fn |-> "setGasPrice", user |-> userGasPrice,
                minimum |-> ethGasConfigs.minimumGasPrice,
                default |-> ethGasConfigs.defaultGasPrice,
                maximum |-> ethGasConfigs.maximumGasPrice,
                result |-> setGasPrice(userGasPrice, ethGasConfigs)]
  /\ UNCHANGED <<scriptType, signKeys, cosigners, stage, tx, prevOutputs, txsWithHighS>>

SetGasLimit ==
  /\ stage = "init"
  /\ call = NoCall
  /\ \E ethGasConfigs \in EthGasConfigs, userGasLimit \in UserGasValues :
       call' = [fn |-> "setGasLimit", user |-> userGasLimit,
                minimum |-> ethGasConfigs.minimumGasLimit,
                default |-> ethGasConfigs.defaultGasLimit,
                maximum |-> ethGasConfigs.maximumGasLimit,
                result |-> setGasLimit(userGasLimit, ethGasConfigs)]
  /\ UNCHANGED <<scriptType, signKeys, cosigners, stage, tx, prevOutputs, txsWithHighS>>

GasNext == SetGasPrice \/ SetGasLimit \/ Return

GasSpec == Init /\ [][GasNext]_vars

GasCall == call # NoCall /\ call.fn \in {"setGasPrice", "setGasLimit"}

\* the answer to a user value, the values in notSet counting as not set
gasAnswer(notSet) ==
  /\ call.user \in notSet => call.result = [number |-> call.default]
  /\ call.user \notin notSet =>
       IF call.user.number < call.minimum \/ call.user.number > call.maximum
       THEN "error" \in DOMAIN call.result
       ELSE call.result = call.user
  /\ (call.user \notin notSet /\ call.result = call.user) =>
       call.minimum <= call.result.number /\ call.result.number <= call.maximum

isBoolean(v) == "boolean" \in DOMAIN v

Returned == [returned |-> TRUE]

\* enterprise and newFeeAddress may be passed together
preCreateBitGo_BothAllowed(params) ==
  IF ~isObject(params) THEN [error |-> "preCreateBitGo must be passed a params object"]
  ELSE LET enterprise == property(params, "enterprise")
           newFeeAddress == property(params, "newFeeAddress")
       IN IF isUndefined(enterprise) /\ isUndefined(newFeeAddress)
          THEN [error |-> "expecting enterprise when adding BitGo key"]
          ELSE IF ~isUndefined(enterprise) /\ ~isString(enterprise)
          THEN [error |-> "enterprise should be a string"]
          ELSE IF ~isUndefined(newFeeAddress) /\ ~isBoolean(newFeeAddress)
          THEN [error |-> "newFeeAddress should be a boolean"]
          ELSE Returned

preCreateBitGo(params) ==
  IF ~isObject(params) THEN [error |-> "preCreateBitGo must be passed a params object"]
  ELSE LET enterprise == property(params, "enterprise")
           newFeeAddress == property(params, "newFeeAddress")
       IN IF isUndefined(enterprise) /\ isUndefined(newFeeAddress)
          THEN [error |-> "expecting enterprise when adding BitGo key"]
          ELSE IF ~isUndefined(enterprise) /\ ~isUndefined(newFeeAddress)
          THEN [error |-> "Incompatible arguments - cannot pass both enterprise and newFeeAddress parameter."]
          ELSE IF ~isUndefined(enterprise) /\ ~isString(enterprise)
          THEN [error |-> "enterprise should be a string"]
          ELSE IF ~isUndefined(newFeeAddress) /\ ~isBoolean(newFeeAddress)
          THEN [error |-> "newFeeAddress should be a boolean"]
          ELSE Returned

\* the values a caller can pass for a property, "absent" for a property left out
PropertyValues ==
  {[absent |-> TRUE], Undefined, [null |-> TRUE],
   [string |-> "enterprise1"], [string |-> "enterprise2"], [string |-> ""],
   [number |-> 0], [number |-> 1],
   [boolean |-> TRUE], [boolean |-> FALSE],
   [array |-> <<>>]}

objectOf(enterprise, newFeeAddress) ==
  LET present == (IF enterprise = [absent |-> TRUE] THEN {} ELSE {"enterprise"})
                   \cup (IF newFeeAddress = [absent |-> TRUE] THEN {} ELSE {"newFeeAddress"})
  IN [object |-> [f \in present |-> IF f = "enterprise" THEN enterprise ELSE newFeeAddress]]

PrecreateBitGoOptions ==
  {Undefined, [string |-> "enterprise1"], [null |-> TRUE]}
    \cup {objectOf(enterprise, newFeeAddress) :
            enterprise \in PropertyValues, newFeeAddress \in PropertyValues}

PreCreateBitGo ==
  /\ stage = "init"
  /\ call = NoCall
  /\ \E params \in PrecreateBitGoOptions :
       call' = [fn |-> "preCreateBitGo", params |-> params, result |-> preCreateBitGo(params)]
  /\ UNCHANGED <<scriptType, signKeys, cosigners, stage, tx, prevOutputs, txsWithHighS>>

PreCreateNext == PreCreateBitGo \/ Return

PreCreateSpec == Init /\ [][PreCreateNext]_vars

\* the property is in the object with a value other than undefined
defined(params, name) ==
  /\ "object" \in DOMAIN params
  /\ name \in DOMAIN params.object
  /\ params.object[name] # Undefined

\* C29: preCreateBitGo returns for exactly the params objects in which one of
\* enterprise and newFeeAddress is defined and the other is not, enterprise
\* being a string or newFeeAddress a boolean; for every other argument it throws
C29_ExactlyOneOfEnterpriseAndNewFeeAddress ==
  (call # NoCall /\ call.fn = "preCreateBitGo") =>
    LET params == call.params
        enterpriseOnly ==
          /\ defined(params, "enterprise") /\ ~defined(params, "newFeeAddress")
          /\ "string" \in DOMAIN params.object.enterprise
        newFeeAddressOnly ==
          /\ defined(params, "newFeeAddress") /\ ~defined(params, "enterprise")
          /\ "boolean" \in DOMAIN params.object.newFeeAddress
    IN /\ call.result = Returned <=> (enterpriseOnly \/ newFeeAddressOnly)
       /\ call.result # Returned => "error" \in DOMAIN call.result

\* the call returns for a new fee address with enterprise passed as undefined
C29_Witness ==
  /\ call # NoCall /\ call.fn = "preCreateBitGo"
  /\ call.result = Returned
  /\ call.params = [object |-> [enterprise |-> Undefined, newFeeAddress |-> [boolean |-> FALSE]]]

\* ---------------------------------------------------------------------------
\* Solana getTransactionType.  An instruction is its program and what the
\* program's decoder makes of it; an instruction-index template is the list
\* of its keys with their indexes, in the order of Object.keys.
\* ---------------------------------------------------------------------------

MaxInstructions == 3

SolInstructions ==
  {[programId |-> "system", type |-> t] :
     t \in {"Create", "InitializeNonceAccount", "AdvanceNonceAccount", "Transfer", "Assign"}}
    \cup {[programId |-> "stake", type |-> t] :
            t \in {"Initialize", "Delegate", "Deactivate", "Withdraw"}}
    \cup {[programId |-> "memo"], [programId |-> "token"], [programId |-> "unknown"]}
    \cup {[programId |-> "associatedToken", dataLength |-> n] : n \in {0, 1}}

VALID_SYSTEM_INSTRUCTION_TYPES ==
  {"Create", "InitializeNonceAccount", "AdvanceNonceAccount", "Transfer", "Memo",
   "TokenTransfer", "InitializeAssociatedTokenAccount",
   "Initialize", "Delegate", "Deactivate", "Withdraw"}

walletInitInstructionIndexes ==
  <<[key |-> "Create", index |-> 0], [key |-> "InitializeNonceAccount", index |-> 1],
    [key |-> "Memo", index |-> 2]>>

stakingActivateInstructionsIndexes ==
  <<[key |-> "Create", index |-> 0], [key |-> "Initialize", index |-> 1],
    [key |-> "Delegate", index |-> 2], [key |-> "Memo", index |-> 3]>>

stakingDeactivateInstructionsIndexes ==
  <<[key |-> "Deactivate", index |-> 0], [key |-> "Memo", index |-> 1]>>

stakingWithdrawInstructionsIndexes ==
  <<[key |-> "Withdraw", index |-> 0], [key |-> "Memo", index |-> 1]>>

ataInitInstructionIndexes ==
  <<[key |-> "InitializeAssociatedTokenAccount", index |-> 0], [key |-> "Memo", index |-> 1]>>

\* the types in the order getTransactionType tries them, with their templates
TransactionTypeTemplates ==
  <<[type |-> "WalletInitialization", template |-> walletInitInstructionIndexes],
    [type |-> "StakingActivate", template |-> stakingActivateInstructionsIndexes],
    [type |-> "StakingDeactivate", template |-> stakingDeactivateInstructionsIndexes],
    [type |-> "StakingWithdraw", template |-> stakingWithdrawInstructionsIndexes],
    [type |-> "AssociatedTokenAccountInitialization", template |-> ataInitInstructionIndexes]>>

\* the type of an instruction, "NotSupported" when getInstructionType throws it
getInstructionType(instruction) ==
  CASE instruction.programId = "memo" -> "Memo"
    [] instruction.programId = "system" -> instruction.type
    [] instruction.programId = "token" -> "TokenTransfer"
    [] instruction.programId = "stake" -> instruction.type
    [] instruction.programId = "associatedToken" ->
         IF instruction.dataLength = 0 THEN "InitializeAssociatedTokenAccount"
         ELSE "NotSupported"
    [] OTHER -> "NotSupported"

\* TRUE when validateIntructionTypes throws NotSupported
validateIntructionTypes(instructions) ==
  \E i \in DOMAIN instructions :
    getInstructionType(instructions[i]) \notin VALID_SYSTEM_INSTRUCTION_TYPES

\* the instructions without a leading AdvanceNonceAccount
withoutNonce(instructions) ==
  IF Len(instructions) > 0 /\ getInstructionType(instructions[1]) = "AdvanceNonceAccount"
  THEN Tail(instructions)
  ELSE instructions

\* the keys of the template without a last key Memo
withoutMemo(instructionIndexes) ==
  IF Len(instructionIndexes) > 0 /\ Last(instructionIndexes).key = "Memo"
  THEN SubSeq(instructionIndexes, 1, Len(instructionIndexes) - 1)
  ELSE instructionIndexes

\* "true", "false", or "TypeError" when the type is asked of an instruction
\* that the array does not have
matchTransactionTypeByInstructionsOrder(instructions, instructionIndexes) ==
  LET instructionsCopy == withoutNonce(instructions)
      instructionsKeys == withoutMemo(instructionIndexes)
      matchFrom[j \in 1..(Len(instructionsKeys) + 1)] ==
        IF j > Len(instructionsKeys) THEN "true"
        ELSE IF instructionsKeys[j].index + 1 > Len(instructionsCopy) THEN "TypeError"
        ELSE IF getInstructionType(instructionsCopy[instructionsKeys[j].index + 1])
                  # instructionsKeys[j].key
        THEN "false"
        ELSE matchFrom[j + 1]
  IN matchFrom[1]

getTransactionType(instructions) ==
  IF validateIntructionTypes(instructions) THEN [error |-> "NotSupported"]
  ELSE
    LET tryFrom[k \in 1..(Len(TransactionTypeTemplates) + 1)] ==
          IF k > Len(TransactionTypeTemplates) THEN [type |-> "Send"]
          ELSE LET matched == matchTransactionTypeByInstructionsOrder(
                                instructions, TransactionTypeTemplates[k].template)
               IN IF matched = "TypeError" THEN [error |-> "TypeError"]
                  ELSE IF matched = "true" THEN [type |-> TransactionTypeTemplates[k].type]
                  ELSE tryFrom[k + 1]
    IN tryFrom[1]

InstructionLists ==
  UNION {[1..n -> SolInstructions] : n \in 0..MaxInstructions}

GetTransactionType ==
  /\ stage = "init"
  /\ call = NoCall
  /\ \E instructions \in InstructionLists :
       call' = [fn |-> "getTransactionType", instructions |-> instructions,
                result |-> getTransactionType(instructions)]
  /\ UNCHANGED <<scriptType, signKeys, cosigners, stage, tx, prevOutputs, txsWithHighS>>

TransactionTypeNext == GetTransactionType \/ Return

TransactionTypeSpec == Init /\ [][TransactionTypeNext]_vars

\* every key of the template but a last Memo sits at its index in the
\* instructions after a leading AdvanceNonceAccount
templateMatches(instructions, template) ==
  LET rest == withoutNonce(instructions)
  IN \A j \in DOMAIN withoutMemo(template) :
       /\ template[j].index + 1 <= Len(rest)
       /\ getInstructionType(rest[template[j].index + 1]) = template[j].key

GetTransactionTypeCall == call # NoCall /\ call.fn = "getTransactionType"

\* C30: getTransactionType throws NotSupported for instructions with an
\* unsupported program or type, and else returns the first type, in the order
\* WalletInitialization, StakingActivate, StakingDeactivate, StakingWithdraw,
\* AssociatedTokenAccountInitialization, whose template matches, Send when
\* none matches
C30_FirstMatchingTemplateElseSend ==
  GetTransactionTypeCall =>
    LET instructions == call.instructions
        matching == {k \in DOMAIN TransactionTypeTemplates :
                       templateMatches(instructions, TransactionTypeTemplates[k].template)}
    IN IF \E i \in DOMAIN instructions :
            getInstructionType(instructions[i]) \notin VALID_SYSTEM_INSTRUCTION_TYPES
       THEN call.result = [error |-> "NotSupported"]
       ELSE IF matching = {} THEN call.result = [type |-> "Send"]
       ELSE call.result
              = [type |->
                   TransactionTypeTemplates[CHOOSE k \in matching :
                                              \A m \in matching : k <= m].type]

\* a lone Create instruction: the wallet initialization template asks for the
\* type of a second instruction
C30_Witness ==
  /\ GetTransactionTypeCall
  /\ call.instructions = <<[programId |-> "system", type |-> "Create"]>>
  /\ call.result = [error |-> "TypeError"]

====
